---- MODULE Spec2Model ----
(***************************************************************************)
(* Model of the landscaper dependency resolver                             *)
(* (pkg/landscaper/installations/imports/helper.go) and of the execution   *)
(* controller (Reconcile / Ensure / HandleAnnotationsAndGeneration /       *)
(* handleError).                                                           *)
(*                                                                         *)
(* Five specifications share this module:                                  *)
(*   SpecResolver : the recursive sibling / ancestor walk over a store of  *)
(*                  installations, run as an explicit call stack;          *)
(*   Spec         : one execution object in the store and the controller   *)
(*                  invocation that reconciles it;                         *)
(*   SpecExports  : the export constructor;                                *)
(*   SpecOutdated : the outdated-imports check;                            *)
(*   SpecWorkers  : several executions in one store, reconciled by         *)
(*                  parallel workers, next to another writer.              *)
(***************************************************************************)
EXTENDS Integers, Sequences, FiniteSets, TLC

\* ------------------------------------------------------------------ bounds
NumInsts == 3
MaxImports == 2
MaxTotalImports == 2

\* ------------------------------------------------------------ resolver data
None == 0
Insts == 1..NumInsts

InstPhases == {"Progressing", "Completed", "Failed"}

\* IsCompletedInstallationPhase: only Completed counts as a satisfied dependency.
IsCompletedInstallationPhase(p) == p = "Completed"

\* A data import as getImportSource sees it: the SourceRef recorded in the
\* installation's import status (None when absent) and the owner the store
\* reports for the imported data object (none, an Installation, another kind).
\* Where a SourceRef is recorded the store names another installation as the
\* owner, so that the two ways of finding the source can be told apart.
ImportChoices ==
    {[ref |-> r, ownerKind |-> "Installation", owner |-> (r % NumInsts) + 1] : r \in Insts}
    \cup {[ref |-> None, ownerKind |-> "Installation", owner |-> o] : o \in Insts}
    \cup {[ref |-> None, ownerKind |-> k, owner |-> None] : k \in {"none", "Target"}}

ImportSeqs == UNION {[1..k -> ImportChoices] : k \in 0..MaxImports}

RECURSIVE SumLen(_, _)
SumLen(f, S) ==
    IF S = {} THEN 0
    ELSE LET i == CHOOSE x \in S : TRUE IN Len(f[i]) + SumLen(f, S \ {i})

\* parent of an installation: None for a root, else an installation created
\* before it (ownership is a forest).
ParentChoices == {f \in [Insts -> Insts \cup {None}] : \A i \in Insts : f[i] < i}

VARIABLES
    instPhase,      \* Installation.Status.Phase of every installation in the store
    instParent,     \* the installation each one is encompassed by (None: root)
    instImports,    \* Installation.Spec.Imports.Data with the recorded import status
    stack,          \* call stack of the resolver
    rpc,            \* "idle" | "call" | "ret" | "done" | "overflow"
    ret,            \* (bool, error) being returned / the final result
    call,           \* the top-level call: [fn, inst]
    fetched,        \* installations fetched with kubeClient.Get during the call
    lookups,        \* <<inst, import index>> whose owner was looked up in the store
    lastStep        \* what the last resolver step did (observation only)

rvars == <<instPhase, instParent, instImports, stack, rpc, ret, call, fetched, lookups, lastStep>>

\* state of the execution controller
VARIABLES
    stored,     \* the Execution in the store (exists = FALSE: no such object)
    stale,      \* the stored object was changed by another writer since this invocation read it
    exec,       \* the invocation's in-memory Execution
    oldExec,    \* exec.DeepCopy() taken before Ensure
    pc,         \* position of the invocation
    lsError,    \* the error Ensure / post-processing produced ("none": nil)
    retErr,     \* the error Reconcile returns ("none": nil)
    outcome,    \* how the invocation ended: "notfound" | "readerr" | "ignored" | "handled"
    writes,     \* store writes attempted by this invocation: <<[id, res]>>
    events,     \* events emitted by this invocation: <<[reason, message]>>
    calls,      \* execution-layer operations called by this invocation
    pre,        \* status at the entry of handleError's error policy
    now,        \* clock, in minutes
    quiet       \* the running invocation repeats one that returned success: nothing changed since

cvars == <<stored, stale, exec, oldExec, pc, lsError, retErr, outcome, writes, events, calls, pre, now, quiet>>

\* state of the export constructor
VARIABLES
    declared,    \* the installation's declared export keys, in declaration order
    execOutput,  \* the keys the installation's own execution output provides
    sibPhase,    \* phase of each sibling installation
    sibExports,  \* the keys each sibling exports
    epc,         \* position of Construct
    cursor,      \* index of the declared key Construct looks at
    candidates,  \* the DataObject found so far for each declared key (NoObject: none)
    exported,    \* what Construct returns: a sequence of DataObjects
    eerr         \* Construct returns an error

evars == <<declared, execOutput, sibPhase, sibExports, epc, cursor, candidates, exported, eerr>>

\* state of the outdated-imports check
VARIABLES
    parentGen,   \* current ConfigGeneration of the parent's import
    sibGen,      \* current ConfigGeneration of each sibling
    dataGen,     \* current generation of the manually provided data import
    impStatus,   \* the installation's imports: <<[kind, src, recorded]>>
    opc,         \* position of OutdatedImports
    oidx,        \* index of the import being looked at
    outdated     \* the result of OutdatedImports

ovars == <<parentGen, sibGen, dataGen, impStatus, opc, oidx, outdated>>

\* state of the store with several executions and the workers that reconcile them
VARIABLES
    objs,    \* the executions in the store, by identity
    wk,      \* each worker's invocation: [req, pc, stale, exec, old, err, ret, runs]
    wlog     \* the store writes each worker's invocation has attempted: <<[id, target, res]>>

wvars == <<objs, wk, wlog>>

\* the two read-only computations on installations, and the parallel workers
pvars == <<evars, ovars, wvars>>

Frame(fn, i) == [fn |-> fn, inst |-> i, idx |-> 1]
Result(ok, err) == [ok |-> ok, err |-> err]
NoStep == [kind |-> "none", inst |-> None, idx |-> 0, src |-> None, depth |-> 0]

\* a step on import k of installation i, taken at the current recursion depth
Step(kind, i, k, s) == [kind |-> kind, inst |-> i, idx |-> k, src |-> s, depth |-> Len(stack)]

Top == stack[Len(stack)]
Pop == SubSeq(stack, 1, Len(stack) - 1)
ReplaceTop(f) == [stack EXCEPT ![Len(stack)] = f]

\* the recursion depth an acyclic import graph can need: one frame for the
\* ancestor walk and one per installation
MaxDepth == NumInsts + 1

\* the installations some data import of the store names as its source
Named(imports) ==
    UNION {{IF imports[i][k].ref # None THEN imports[i][k].ref ELSE imports[i][k].owner
                : k \in 1..Len(imports[i])} : i \in Insts} \ {None}

\* The store the resolver walks. The phase of an installation that no import
\* names is never read by the walk; it is fixed to Completed.
RInit ==
    /\ instImports \in {f \in [Insts -> ImportSeqs] : SumLen(f, Insts) <= MaxTotalImports}
    /\ instPhase \in {f \in [Insts -> InstPhases] :
                        \A i \in Insts \ Named(instImports) : f[i] = "Completed"}
    /\ instParent \in ParentChoices
    /\ stack = <<>>
    /\ rpc = "idle"
    /\ ret = Result(TRUE, FALSE)
    /\ call = [fn |-> "none", inst |-> None]
    /\ fetched = {}
    /\ lookups = {}
    /\ lastStep = NoStep

\* ------------------------------------------------------- resolver operations

\* installations.GetParent: no lookup for a root; otherwise one Get, which can fail.
GetParent(i, fail) ==
    IF instParent[i] = None THEN [parent |-> None, err |-> FALSE]
    ELSE IF fail THEN [parent |-> None, err |-> TRUE]
    ELSE [parent |-> instParent[i], err |-> FALSE]

\* installations.GetDataImport: the owner of the imported data object, or an error.
GetDataImport(i, k, fail) ==
    IF fail THEN [ownerKind |-> "none", owner |-> None, err |-> TRUE]
    ELSE [ownerKind |-> instImports[i][k].ownerKind,
          owner |-> instImports[i][k].owner, err |-> FALSE]

\* mutant of getImportSource: the owner is looked up in the store first and the
\* recorded SourceRef is used only when the store names no installation
getImportSource_OwnerFirst(i, k, failOwner) ==
    LET o == GetDataImport(i, k, failOwner) IN
    IF o.err THEN [src |-> None, err |-> TRUE, looked |-> TRUE]
    ELSE IF o.ownerKind = "Installation"
         THEN [src |-> o.owner, err |-> FALSE, looked |-> TRUE]
         ELSE [src |-> instImports[i][k].ref, err |-> FALSE, looked |-> TRUE]

\* getImportSource: the recorded SourceRef if there is one, else the owner from
\* the store when it is an Installation, else nil.
getImportSource(i, k, failOwner) ==
    IF instImports[i][k].ref # None
    THEN [src |-> instImports[i][k].ref, err |-> FALSE, looked |-> FALSE]
    ELSE LET o == GetDataImport(i, k, failOwner) IN
         IF o.err THEN [src |-> None, err |-> TRUE, looked |-> TRUE]
         ELSE IF o.ownerKind # "Installation"
              THEN [src |-> None, err |-> FALSE, looked |-> TRUE]
              ELSE [src |-> o.owner, err |-> FALSE, looked |-> TRUE]

\* mutant of ImportOutcome: the phase of the source is not checked (helper.go:85-88 dropped)
ImportOutcome_NoPhaseCheck(i, k, failOwner, failParent, failGet) ==
    LET s == getImportSource(i, k, failOwner)
        out(kind, got) == [kind |-> kind, src |-> s.src, looked |-> s.looked, got |-> got]
    IN  IF s.err THEN out("fail", FALSE)
        ELSE IF s.src = None THEN out("skip", FALSE)
        ELSE IF s.src = i THEN out("skip", FALSE)
        ELSE LET p == GetParent(i, failParent) IN
             IF p.err THEN out("fail", FALSE)
             ELSE IF p.parent # None /\ s.src = p.parent THEN out("skip", FALSE)
             ELSE IF failGet THEN out("fail", FALSE)
             ELSE out("recurse", TRUE)

\* mutant of ImportOutcome: a completed source is accepted without checking its
\* own imports (helper.go:90-98 dropped)
ImportOutcome_NoRecursion(i, k, failOwner, failParent, failGet) ==
    LET s == getImportSource(i, k, failOwner)
        out(kind, got) == [kind |-> kind, src |-> s.src, looked |-> s.looked, got |-> got]
    IN  IF s.err THEN out("fail", FALSE)
        ELSE IF s.src = None THEN out("skip", FALSE)
        ELSE IF s.src = i THEN out("skip", FALSE)
        ELSE LET p == GetParent(i, failParent) IN
             IF p.err THEN out("fail", FALSE)
             ELSE IF p.parent # None /\ s.src = p.parent THEN out("skip", FALSE)
             ELSE IF failGet THEN out("fail", FALSE)
             ELSE IF ~IsCompletedInstallationPhase(instPhase[s.src])
                  THEN out("incomplete", TRUE)
                  ELSE out("skip", TRUE)

\* mutant of ImportOutcome: an import from the direct parent is treated like one from a sibling (helper.go:75-77 dropped)
ImportOutcome_NoParentSkip(i, k, failOwner, failParent, failGet) ==
    LET s == getImportSource(i, k, failOwner)
        out(kind, got) == [kind |-> kind, src |-> s.src, looked |-> s.looked, got |-> got]
    IN  IF s.err THEN out("fail", FALSE)
        ELSE IF s.src = None THEN out("skip", FALSE)
        ELSE IF s.src = i THEN out("skip", FALSE)
        ELSE LET p == GetParent(i, failParent) IN
             IF p.err THEN out("fail", FALSE)
             ELSE IF failGet THEN out("fail", FALSE)
             ELSE IF ~IsCompletedInstallationPhase(instPhase[s.src])
                  THEN out("incomplete", TRUE)
                  ELSE out("recurse", TRUE)

\* One iteration of the loop over inst.Info.Spec.Imports.Data, up to the
\* recursive call: what happens to import k of installation i.
\*   "skip"       continue with the next import
\*   "fail"       return (false, err)
\*   "incomplete" return (false, nil)
\*   "recurse"    call CheckCompletedSiblingDependents on the source
ImportOutcome(i, k, failOwner, failParent, failGet) ==
    LET s == getImportSource(i, k, failOwner)
        out(kind, got) == [kind |-> kind, src |-> s.src, looked |-> s.looked, got |-> got]
    IN  IF s.err THEN out("fail", FALSE)
        ELSE IF s.src = None THEN out("skip", FALSE)
        ELSE IF s.src = i THEN out("skip", FALSE)
        ELSE LET p == GetParent(i, failParent) IN
             IF p.err THEN out("fail", FALSE)
             ELSE IF p.parent # None /\ s.src = p.parent THEN out("skip", FALSE)
             ELSE IF failGet THEN out("fail", FALSE)
             ELSE IF ~IsCompletedInstallationPhase(instPhase[s.src])
                  THEN out("incomplete", TRUE)
                  ELSE out("recurse", TRUE)

\* a call, or "overflow" when the recursion is deeper than any acyclic import
\* graph needs (the Go recursion has no visited set and does not come back)
PushOrOverflow(base, f) ==
    IF Len(base) >= MaxDepth
    THEN /\ rpc' = "overflow"
         /\ stack' = base
    ELSE /\ rpc' = "call"
         /\ stack' = Append(base, f)

\* ---------------------------------------------------------- resolver actions

\* CheckCompletedSiblingDependents(ctx, kubeClient, contextName, inst), inst may be nil
CallSiblings(a) ==
    /\ rpc = "idle"
    /\ call' = [fn |-> "siblings", inst |-> a]
    /\ fetched' = {}
    /\ lookups' = {}
    /\ lastStep' = NoStep
    /\ IF a = None
       THEN /\ rpc' = "ret"
            /\ ret' = Result(TRUE, FALSE)
            /\ stack' = <<>>
       ELSE /\ rpc' = "call"
            /\ ret' = ret
            /\ stack' = <<Frame("siblings", a)>>
    /\ UNCHANGED <<instPhase, instParent, instImports, cvars, pvars>>

\* CheckCompletedSiblingDependentsOfParent(ctx, kubeClient, parent), parent may be nil
CallOfParent(p) ==
    /\ rpc = "idle"
    /\ call' = [fn |-> "ofParent", inst |-> p]
    /\ fetched' = {}
    /\ lookups' = {}
    /\ lastStep' = NoStep
    /\ IF p = None
       THEN /\ rpc' = "ret"
            /\ ret' = Result(TRUE, FALSE)
            /\ stack' = <<>>
       ELSE /\ rpc' = "call"
            /\ ret' = ret
            /\ stack' = <<Frame("ofParent", p)>>
    /\ UNCHANGED <<instPhase, instParent, instImports, cvars, pvars>>

\* helper.go:24-25: the ancestor walk checks the parent's own sibling dependents
OfParentStart ==
    /\ rpc = "call"
    /\ Top.fn = "ofParent"
    /\ PushOrOverflow(stack, Frame("siblings", Top.inst))
    /\ lastStep' = Step("ofParent", Top.inst, 0, None)
    /\ UNCHANGED <<instPhase, instParent, instImports, ret, call, fetched, lookups, cvars, pvars>>

\* helper.go:57-98: one data import of the installation on top of the stack
SiblingsImport ==
    /\ rpc = "call"
    /\ Top.fn = "siblings"
    /\ Top.idx <= Len(instImports[Top.inst])
    /\ \E failOwner, failParent, failGet \in BOOLEAN :
         LET i == Top.inst
             k == Top.idx
             o == ImportOutcome(i, k, failOwner, failParent, failGet)
         IN  /\ lastStep' = Step(o.kind, i, k, o.src)
             /\ lookups' = IF o.looked THEN lookups \cup {<<i, k>>} ELSE lookups
             /\ fetched' = IF o.got THEN fetched \cup {o.src} ELSE fetched
             /\ CASE o.kind = "skip" ->
                       /\ stack' = ReplaceTop([Top EXCEPT !.idx = k + 1])
                       /\ rpc' = "call"
                       /\ ret' = ret
                  [] o.kind = "fail" ->
                       /\ stack' = Pop
                       /\ rpc' = "ret"
                       /\ ret' = Result(FALSE, TRUE)
                  [] o.kind = "incomplete" ->
                       /\ stack' = Pop
                       /\ rpc' = "ret"
                       /\ ret' = Result(FALSE, FALSE)
                  [] o.kind = "recurse" ->
                       /\ PushOrOverflow(stack, Frame("siblings", o.src))
                       /\ ret' = ret
    /\ UNCHANGED <<instPhase, instParent, instImports, call, cvars, pvars>>

\* helper.go:101: every import passed
SiblingsLoopEnd ==
    /\ rpc = "call"
    /\ Top.fn = "siblings"
    /\ Top.idx > Len(instImports[Top.inst])
    /\ stack' = Pop
    /\ rpc' = "ret"
    /\ ret' = Result(TRUE, FALSE)
    /\ lastStep' = Step("loopEnd", Top.inst, Top.idx, None)
    /\ UNCHANGED <<instPhase, instParent, instImports, call, fetched, lookups, cvars, pvars>>

\* mutant of SiblingsResume: an error of the recursive call is reported as not completed (helper.go:93-95 dropped)
SiblingsResume_SwallowsError ==
    /\ rpc = "ret"
    /\ stack # <<>>
    /\ Top.fn = "siblings"
    /\ lastStep' = Step("resume", Top.inst, Top.idx, None)
    /\ IF ret.err \/ ~ret.ok
       THEN /\ stack' = Pop
            /\ rpc' = "ret"
            /\ ret' = Result(FALSE, FALSE)
       ELSE /\ stack' = ReplaceTop([Top EXCEPT !.idx = Top.idx + 1])
            /\ rpc' = "call"
            /\ ret' = ret
    /\ UNCHANGED <<instPhase, instParent, instImports, call, fetched, lookups, cvars, pvars>>

\* helper.go:92-98: the recursive call came back to the loop
SiblingsResume ==
    /\ rpc = "ret"
    /\ stack # <<>>
    /\ Top.fn = "siblings"
    /\ lastStep' = Step("resume", Top.inst, Top.idx, None)
    /\ IF ret.err \/ ~ret.ok
       THEN /\ stack' = Pop
            /\ rpc' = "ret"
            /\ ret' = Result(FALSE, ret.err)
       ELSE /\ stack' = ReplaceTop([Top EXCEPT !.idx = Top.idx + 1])
            /\ rpc' = "call"
            /\ ret' = ret
    /\ UNCHANGED <<instPhase, instParent, instImports, call, fetched, lookups, cvars, pvars>>

\* mutant of OfParentResume: the walk stops at the parent (helper.go:33-42 dropped)
OfParentResume_NoWalk ==
    /\ rpc = "ret"
    /\ stack # <<>>
    /\ Top.fn = "ofParent"
    /\ lastStep' = Step("resumeParent", Top.inst, 0, None)
    /\ stack' = Pop
    /\ rpc' = "ret"
    /\ ret' = Result(~ret.err /\ ret.ok, ret.err)
    /\ UNCHANGED <<instPhase, instParent, instImports, call, fetched, lookups, cvars, pvars>>

\* helper.go:26-42: the parent's sibling check came back to the ancestor walk
OfParentResume ==
    /\ rpc = "ret"
    /\ stack # <<>>
    /\ Top.fn = "ofParent"
    /\ IF ret.err \/ ~ret.ok
       THEN /\ stack' = Pop
            /\ rpc' = "ret"
            /\ ret' = Result(FALSE, ret.err)
            /\ lastStep' = Step("resumeParent", Top.inst, 0, None)
       ELSE \E failParent \in BOOLEAN :
              LET p == GetParent(Top.inst, failParent) IN
              IF p.err
              THEN /\ stack' = Pop
                   /\ rpc' = "ret"
                   /\ ret' = Result(FALSE, TRUE)
                   /\ lastStep' = Step("parentFail", Top.inst, 0, None)
              ELSE IF p.parent = None
              THEN /\ stack' = Pop
                   /\ rpc' = "ret"
                   /\ ret' = Result(TRUE, FALSE)
                   /\ lastStep' = Step("resumeParent", Top.inst, 0, None)
              ELSE /\ stack' = ReplaceTop(Frame("ofParent", p.parent))
                   /\ rpc' = "call"
                   /\ ret' = ret
                   /\ lastStep' = Step("resumeParent", Top.inst, 0, None)
    /\ UNCHANGED <<instPhase, instParent, instImports, call, fetched, lookups, cvars, pvars>>

\* the outermost call returns to its caller
ResolverReturn ==
    /\ rpc = "ret"
    /\ stack = <<>>
    /\ rpc' = "done"
    /\ UNCHANGED <<instPhase, instParent, instImports, stack, ret, call, fetched, lookups, lastStep, cvars, pvars>>

\* the caller takes the result; the resolver can be called again
ResolverReset ==
    /\ rpc \in {"done", "overflow"}
    /\ rpc' = "idle"
    /\ stack' = <<>>
    /\ ret' = Result(TRUE, FALSE)
    /\ call' = [fn |-> "none", inst |-> None]
    /\ fetched' = {}
    /\ lookups' = {}
    /\ lastStep' = NoStep
    /\ UNCHANGED <<instPhase, instParent, instImports, cvars, pvars>>

RNext ==
    \/ \E a \in Insts \cup {None} : CallSiblings(a)
    \/ \E p \in Insts \cup {None} : CallOfParent(p)
    \/ OfParentStart
    \/ SiblingsImport
    \/ SiblingsLoopEnd
    \/ SiblingsResume
    \/ OfParentResume
    \/ ResolverReturn
    \/ ResolverReset


\* ------------------------------------------------- resolver: stated properties

\* the installation a data import comes from, read off the store: the recorded
\* SourceRef, else the owning Installation, else none
DeclSource(i, k) ==
    IF instImports[i][k].ref # None THEN instImports[i][k].ref
    ELSE IF instImports[i][k].ownerKind = "Installation" THEN instImports[i][k].owner
    ELSE None

\* the sources of i's data imports that are neither i nor i's direct parent
SiblingDeps(i) ==
    {DeclSource(i, k) : k \in 1..Len(instImports[i])} \ {None, i, instParent[i]}

RECURSIVE Closure(_)
Closure(S) ==
    LET T == S \cup UNION {SiblingDeps(x) : x \in S}
    IN  IF T = S THEN S ELSE Closure(T)

\* every installation reachable from a through chains of data imports
Reach(a) == Closure(SiblingDeps(a))

AllReachCompleted(a) == \A y \in Reach(a) : instPhase[y] = "Completed"

RECURSIVE AncestorsOrSelf(_)
AncestorsOrSelf(p) ==
    IF p = None THEN {} ELSE {p} \cup AncestorsOrSelf(instParent[p])

ImportStepKinds == {"skip", "fail", "incomplete", "recurse"}

\* the import the last step examined comes from a sibling that is not Completed
AtIncompleteSibling ==
    /\ lastStep.kind \in ImportStepKinds
    /\ LET b == DeclSource(lastStep.inst, lastStep.idx) IN
         /\ b \in Insts
         /\ b # lastStep.inst
         /\ b # instParent[lastStep.inst]
         /\ instPhase[b] # "Completed"

\* C1: when the loop reaches a data import of A whose source B is neither A nor
\* A's direct parent and B.Phase is not Completed, the call on A returns
\* (false, nil) at that import, without examining later imports, unless a lookup
\* for that import failed; and a top-level call on such an A never returns true.
C1_ShortCircuit ==
    /\ (AtIncompleteSibling /\ lastStep.kind # "fail") =>
          /\ lastStep.kind = "incomplete"
          /\ rpc \in {"ret", "done"}
          /\ ret = Result(FALSE, FALSE)
          /\ Len(stack) = lastStep.depth - 1
    /\ (rpc = "done" /\ call.fn = "siblings" /\ call.inst # None
          /\ \E b \in SiblingDeps(call.inst) : instPhase[b] # "Completed")
       => ~ret.ok

\* C1 witness: the first of two imports short-circuits the top-level call
C1_Witness ==
    /\ rpc = "ret"
    /\ stack = <<>>
    /\ call.fn = "siblings"
    /\ lastStep.kind = "incomplete"
    /\ lastStep.inst = call.inst
    /\ lastStep.idx = 1
    /\ Len(instImports[call.inst]) = 2
    /\ ret = Result(FALSE, FALSE)

\* C2: when no lookup fails, CheckCompletedSiblingDependents(A) returns true if
\* and only if every installation reachable from A through chains of data
\* imports (skipping self and direct parent at each step) is Completed; with a
\* failed lookup it does not return true.
C2_Transitive ==
    (rpc = "done" /\ call.fn = "siblings" /\ call.inst # None) =>
        /\ ret.ok => (~ret.err /\ AllReachCompleted(call.inst))
        /\ (~ret.err /\ AllReachCompleted(call.inst)) => ret.ok

\* C2 witness: A imports from a Completed B whose own source C is not Completed
C2_Witness ==
    /\ rpc = "done"
    /\ call.fn = "siblings"
    /\ call.inst # None
    /\ ret = Result(FALSE, FALSE)
    /\ \A b \in SiblingDeps(call.inst) : instPhase[b] = "Completed"
    /\ \E b \in SiblingDeps(call.inst) : \E c \in SiblingDeps(b) :
          c # call.inst /\ instPhase[c] # "Completed"

\* C3: CheckCompletedSiblingDependentsOfParent(P) returns true only if the
\* sibling-dependency check holds for P and for every ancestor of P up to the
\* root, and returns true in that case when no lookup fails.
C3_Upward ==
    (rpc = "done" /\ call.fn = "ofParent" /\ call.inst # None) =>
        /\ ret.ok => (~ret.err /\ \A q \in AncestorsOrSelf(call.inst) : AllReachCompleted(q))
        /\ (~ret.err /\ \A q \in AncestorsOrSelf(call.inst) : AllReachCompleted(q)) => ret.ok

\* C3 witness: P's own sibling dependencies are Completed, its parent's are not
C3_Witness ==
    /\ rpc = "done"
    /\ call.fn = "ofParent"
    /\ call.inst # None
    /\ instParent[call.inst] # None
    /\ SiblingDeps(call.inst) # {}
    /\ AllReachCompleted(call.inst)
    /\ ~AllReachCompleted(instParent[call.inst])
    /\ ret = Result(FALSE, FALSE)

\* ======================================================================
\* Execution controller
\* ======================================================================

\* ------------------------------------------------------------------ bounds
MaxGeneration == 2
MaxTime == 6
TickMinutes == 3

\* 5*time.Minute, the threshold handleError passes to GetPhaseForLastError
ErrorThreshold == 5

ExecPhases == {"Init", "Progressing", "Completed", "Failed", "DeleteFailed"}

\* IsCompletedExecutionPhase: only Completed is a completed phase.
IsCompletedExecutionPhase(p) == p = "Completed"

\* Status.LastError: nil, or the error with the time it was first seen
\* (LastTransitionTime) and last seen (LastUpdateTime)
NoLastError == [err |-> "none", first |-> 0, last |-> 0]

\* lserrors.TryUpdateLsError: the new error replaces the recorded one; it keeps
\* the time the recorded one was first seen when it is the same error.
TryUpdateLsError(lastError, err, t) ==
    [err |-> err,
     first |-> IF lastError # NoLastError /\ lastError.err = err THEN lastError.first ELSE t,
     last |-> t]

\* lserrors.GetPhaseForLastError: Failed once the error has persisted past the
\* threshold, else the phase as it is.
GetPhaseForLastError(phase, lastError, d) ==
    IF lastError = NoLastError THEN phase
    ELSE IF lastError.last - lastError.first > d THEN "Failed"
    ELSE phase

\* the operation annotation (one key): none, reconcile or force-reconcile
HasOperation(e, o) == e.op = o
HasIgnoreAnnotation(e) == e.ignore

\* the errors Ensure and removeForceReconcileAnnotation return
ErrStatusUpdate == "HandleAnnotationsAndGeneration/update execution status"
ErrMetaUpdate == "HandleAnnotationsAndGeneration/update execution"
ErrAddFinalizer == "Reconcile/AddFinalizer"
ErrDeployItems == "Reconcile/HandleDeployItemPhaseAndGenerationChanges"
ErrRemoveForce == "Reconcile/RemoveForceReconcileAnnotation"
ErrReconcile == "Execution/Reconcile"
ErrDelete == "Execution/Delete"


Status(ph, og, le) == [phase |-> ph, observedGeneration |-> og, lastError |-> le]

\* the object as created: generation 1, nothing observed yet, phase Init
NewExecution ==
    [exists |-> TRUE, generation |-> 1, op |-> "none", ignore |-> FALSE,
     deleting |-> FALSE, finalizer |-> FALSE, status |-> Status("Init", 0, NoLastError)]

CInit ==
    /\ stored = NewExecution
    /\ stale = FALSE
    /\ exec = NewExecution
    /\ oldExec = NewExecution
    /\ pc = "idle"
    /\ lsError = "none"
    /\ retErr = "none"
    /\ outcome = "none"
    /\ writes = <<>>
    /\ events = <<>>
    /\ calls = <<>>
    /\ pre = Status("Init", 0, NoLastError)
    /\ now = 0
    /\ quiet = FALSE

\* ------------------------------------------------------------- store adapter

\* Update / UpdateStatus: rejected when the object is gone, when it changed
\* since it was read (conflict), or for any other reason
UpdateResult(fail) ==
    IF ~stored.exists THEN "notfound"
    ELSE IF stale THEN "conflict"
    ELSE IF fail THEN "failed"
    ELSE "ok"

\* Patch(object, old): a merge patch, no comparison of versions
PatchResult(fail) ==
    IF ~stored.exists THEN "notfound"
    ELSE IF fail THEN "failed"
    ELSE "ok"

Write(id, res) == [id |-> id, res |-> res]
Event(reason, message) == [reason |-> reason, message |-> message]
WriteIds(ws) == {ws[n].id : n \in 1..Len(ws)}

\* ------------------------------------------------- what others do to the object

\* the spec of the execution is changed: the store bumps the generation. This
\* can happen while an invocation runs; the invocation notices it only at its
\* next Update, so the change is placed before each step that issues one.
UpdateSpec ==
    /\ stored.exists
    /\ stored.generation < MaxGeneration
    /\ pc \in {"idle", "ensure", "finalizer", "handle"}
    /\ stored' = [stored EXCEPT !.generation = @ + 1]
    /\ stale' = (pc # "idle")
    /\ quiet' = FALSE
    /\ UNCHANGED <<exec, oldExec, pc, lsError, retErr, outcome, writes, events, calls, pre, now, rvars, pvars>>

\* an operation annotation is set on the execution
Annotate(o) ==
    /\ stored.exists
    /\ pc = "idle"
    /\ stored.op # o
    /\ stored' = [stored EXCEPT !.op = o]
    /\ quiet' = FALSE
    /\ UNCHANGED <<stale, exec, oldExec, pc, lsError, retErr, outcome, writes, events, calls, pre, now, rvars, pvars>>

\* the ignore annotation is set or removed
SetIgnore(b) ==
    /\ stored.exists
    /\ pc = "idle"
    /\ stored.ignore # b
    /\ stored' = [stored EXCEPT !.ignore = b]
    /\ quiet' = FALSE
    /\ UNCHANGED <<stale, exec, oldExec, pc, lsError, retErr, outcome, writes, events, calls, pre, now, rvars, pvars>>

\* the execution is deleted: with a finalizer it gets a deletion timestamp,
\* without one the store reclaims it at once
DeleteExecution ==
    /\ stored.exists
    /\ pc = "idle"
    /\ ~stored.deleting
    /\ stored' = IF stored.finalizer THEN [stored EXCEPT !.deleting = TRUE]
                 ELSE [stored EXCEPT !.exists = FALSE]
    /\ quiet' = FALSE
    /\ UNCHANGED <<stale, exec, oldExec, pc, lsError, retErr, outcome, writes, events, calls, pre, now, rvars, pvars>>

\* time passes between invocations
Tick ==
    /\ pc = "idle"
    /\ now + TickMinutes <= MaxTime
    /\ now' = now + TickMinutes
    /\ UNCHANGED <<stored, stale, exec, oldExec, pc, lsError, retErr, outcome, writes, events, calls, pre, quiet, rvars, pvars>>

\* -------------------------------------------------------------- the invocation

\* mutant of ReconcileStart: the ignore annotation is not honoured when an operation annotation is set
ReconcileStart_IgnoreOnlyWithoutOperation ==
    /\ pc = "idle"
    /\ writes' = <<>>
    /\ events' = <<>>
    /\ calls' = <<>>
    /\ lsError' = "none"
    /\ stale' = FALSE
    /\ \E readFail \in BOOLEAN :
         IF readFail
         THEN /\ outcome' = "readerr"
              /\ retErr' = "read"
              /\ pc' = "done"
              /\ UNCHANGED <<exec, oldExec>>
         ELSE IF ~stored.exists
         THEN /\ outcome' = "notfound"
              /\ retErr' = "none"
              /\ pc' = "done"
              /\ UNCHANGED <<exec, oldExec>>
         ELSE IF HasIgnoreAnnotation(stored) /\ IsCompletedExecutionPhase(stored.status.phase)
                 /\ stored.op = "none"
         THEN /\ outcome' = "ignored"
              /\ retErr' = "none"
              /\ pc' = "done"
              /\ exec' = stored
              /\ UNCHANGED oldExec
         ELSE /\ outcome' = "none"
              /\ retErr' = "none"
              /\ pc' = "ensure"
              /\ exec' = stored
              /\ oldExec' = stored
    /\ UNCHANGED <<stored, pre, now, quiet, rvars, pvars>>

\* mutant of ReconcileStart: a not-found read error is returned like any other read error (lines 57-60 dropped)
ReconcileStart_NotFoundIsError ==
    /\ pc = "idle"
    /\ writes' = <<>>
    /\ events' = <<>>
    /\ calls' = <<>>
    /\ lsError' = "none"
    /\ stale' = FALSE
    /\ \E readFail \in BOOLEAN :
         IF readFail
         THEN /\ outcome' = "readerr"
              /\ retErr' = "read"
              /\ pc' = "done"
              /\ UNCHANGED <<exec, oldExec>>
         ELSE IF ~stored.exists
         THEN /\ outcome' = "notfound"
              /\ retErr' = "read"
              /\ pc' = "done"
              /\ UNCHANGED <<exec, oldExec>>
         ELSE IF HasIgnoreAnnotation(stored) /\ IsCompletedExecutionPhase(stored.status.phase)
         THEN /\ outcome' = "ignored"
              /\ retErr' = "none"
              /\ pc' = "done"
              /\ exec' = stored
              /\ UNCHANGED oldExec
         ELSE /\ outcome' = "none"
              /\ retErr' = "none"
              /\ pc' = "ensure"
              /\ exec' = stored
              /\ oldExec' = stored
    /\ UNCHANGED <<stored, pre, now, quiet, rvars, pvars>>

\* Reconcile, lines 51-70: read the execution, return on not-found, on a read
\* error and on the ignore annotation; else take the copy and go on to Ensure
ReconcileStart ==
    /\ pc = "idle"
    /\ writes' = <<>>
    /\ events' = <<>>
    /\ calls' = <<>>
    /\ lsError' = "none"
    /\ stale' = FALSE
    /\ \E readFail \in BOOLEAN :
         IF readFail
         THEN /\ outcome' = "readerr"
              /\ retErr' = "read"
              /\ pc' = "done"
              /\ UNCHANGED <<exec, oldExec>>
         ELSE IF ~stored.exists
         THEN /\ outcome' = "notfound"
              /\ retErr' = "none"
              /\ pc' = "done"
              /\ UNCHANGED <<exec, oldExec>>
         ELSE IF HasIgnoreAnnotation(stored) /\ IsCompletedExecutionPhase(stored.status.phase)
         THEN /\ outcome' = "ignored"
              /\ retErr' = "none"
              /\ pc' = "done"
              /\ exec' = stored
              /\ UNCHANGED oldExec
         ELSE /\ outcome' = "none"
              /\ retErr' = "none"
              /\ pc' = "ensure"
              /\ exec' = stored
              /\ oldExec' = stored
    /\ UNCHANGED <<stored, pre, now, quiet, rvars, pvars>>

\* mutant of HandleAnnotationsAndGeneration: the force-reconcile annotation does not trigger the reset (line 141 without it)
HandleAnnotationsAndGeneration_IgnoresForce ==
    /\ pc = "ensure"
    /\ \E failStatus, failMeta \in BOOLEAN :
         LET hasReconcileAnnotation == HasOperation(exec, "reconcile")
             hasForceReconcileAnnotation == HasOperation(exec, "force-reconcile")
             needed == \/ hasReconcileAnnotation
                       \/ exec.status.observedGeneration # exec.generation
             exec1 == IF needed
                      THEN [exec EXCEPT !.status.observedGeneration = exec.generation,
                                        !.status.phase = "Init"]
                      ELSE exec
             r1 == UpdateResult(failStatus)
             w1 == IF needed THEN <<Write("W000033", r1)>> ELSE <<>>
             ok1 == ~needed \/ r1 = "ok"
             stored1 == IF needed /\ r1 = "ok"
                        THEN [stored EXCEPT !.status = exec1.status] ELSE stored
             exec2 == IF hasReconcileAnnotation THEN [exec1 EXCEPT !.op = "none"] ELSE exec1
             r2 == UpdateResult(failMeta)
             w2 == IF hasReconcileAnnotation THEN <<Write("W000027", r2)>> ELSE <<>>
         IN  IF ~ok1
             THEN /\ exec' = exec1
                  /\ stored' = stored
                  /\ writes' = writes \o w1
                  /\ lsError' = ErrStatusUpdate
                  /\ pc' = "post"
             ELSE IF hasReconcileAnnotation /\ r2 # "ok"
             THEN /\ exec' = exec2
                  /\ stored' = stored1
                  /\ writes' = writes \o w1 \o w2
                  /\ lsError' = ErrMetaUpdate
                  /\ pc' = "post"
             ELSE /\ exec' = exec2
                  /\ stored' = IF hasReconcileAnnotation
                               THEN [stored1 EXCEPT !.op = "none"] ELSE stored1
                  /\ writes' = writes \o w1 \o w2
                  /\ lsError' = "none"
                  /\ pc' = "finalizer"
    /\ UNCHANGED <<stale, oldExec, retErr, outcome, events, calls, pre, now, quiet, rvars, pvars>>

\* mutant of HandleAnnotationsAndGeneration: the operation annotation is removed for force-reconcile too (line 158)
HandleAnnotationsAndGeneration_StripsForce ==
    /\ pc = "ensure"
    /\ \E failStatus, failMeta \in BOOLEAN :
         LET hasReconcileAnnotation == HasOperation(exec, "reconcile")
             hasForceReconcileAnnotation == HasOperation(exec, "force-reconcile")
             needed == \/ hasReconcileAnnotation
                       \/ hasForceReconcileAnnotation
                       \/ exec.status.observedGeneration # exec.generation
             exec1 == IF needed
                      THEN [exec EXCEPT !.status.observedGeneration = exec.generation,
                                        !.status.phase = "Init"]
                      ELSE exec
             r1 == UpdateResult(failStatus)
             w1 == IF needed THEN <<Write("W000033", r1)>> ELSE <<>>
             ok1 == ~needed \/ r1 = "ok"
             stored1 == IF needed /\ r1 = "ok"
                        THEN [stored EXCEPT !.status = exec1.status] ELSE stored
             exec2 == IF hasReconcileAnnotation \/ hasForceReconcileAnnotation
                      THEN [exec1 EXCEPT !.op = "none"] ELSE exec1
             r2 == UpdateResult(failMeta)
             w2 == IF hasReconcileAnnotation THEN <<Write("W000027", r2)>> ELSE <<>>
         IN  IF ~ok1
             THEN /\ exec' = exec1
                  /\ stored' = stored
                  /\ writes' = writes \o w1
                  /\ lsError' = ErrStatusUpdate
                  /\ pc' = "post"
             ELSE IF hasReconcileAnnotation /\ r2 # "ok"
             THEN /\ exec' = exec2
                  /\ stored' = stored1
                  /\ writes' = writes \o w1 \o w2
                  /\ lsError' = ErrMetaUpdate
                  /\ pc' = "post"
             ELSE /\ exec' = exec2
                  /\ stored' = IF hasReconcileAnnotation
                               THEN [stored1 EXCEPT !.op = "none"] ELSE stored1
                  /\ writes' = writes \o w1 \o w2
                  /\ lsError' = "none"
                  /\ pc' = "finalizer"
    /\ UNCHANGED <<stale, oldExec, retErr, outcome, events, calls, pre, now, quiet, rvars, pvars>>

\* HandleAnnotationsAndGeneration, lines 137-170
HandleAnnotationsAndGeneration ==
    /\ pc = "ensure"
    /\ \E failStatus, failMeta \in BOOLEAN :
         LET hasReconcileAnnotation == HasOperation(exec, "reconcile")
             hasForceReconcileAnnotation == HasOperation(exec, "force-reconcile")
             needed == \/ hasReconcileAnnotation
                       \/ hasForceReconcileAnnotation
                       \/ exec.status.observedGeneration # exec.generation
             exec1 == IF needed
                      THEN [exec EXCEPT !.status.observedGeneration = exec.generation,
                                        !.status.phase = "Init"]
                      ELSE exec
             r1 == UpdateResult(failStatus)
             w1 == IF needed THEN <<Write("W000033", r1)>> ELSE <<>>
             ok1 == ~needed \/ r1 = "ok"
             stored1 == IF needed /\ r1 = "ok"
                        THEN [stored EXCEPT !.status = exec1.status] ELSE stored
             exec2 == IF hasReconcileAnnotation THEN [exec1 EXCEPT !.op = "none"] ELSE exec1
             r2 == UpdateResult(failMeta)
             w2 == IF hasReconcileAnnotation THEN <<Write("W000027", r2)>> ELSE <<>>
         IN  IF ~ok1
             THEN /\ exec' = exec1
                  /\ stored' = stored
                  /\ writes' = writes \o w1
                  /\ lsError' = ErrStatusUpdate
                  /\ pc' = "post"
             ELSE IF hasReconcileAnnotation /\ r2 # "ok"
             THEN /\ exec' = exec2
                  /\ stored' = stored1
                  /\ writes' = writes \o w1 \o w2
                  /\ lsError' = ErrMetaUpdate
                  /\ pc' = "post"
             ELSE /\ exec' = exec2
                  /\ stored' = IF hasReconcileAnnotation
                               THEN [stored1 EXCEPT !.op = "none"] ELSE stored1
                  /\ writes' = writes \o w1 \o w2
                  /\ lsError' = "none"
                  /\ pc' = "finalizer"
    /\ UNCHANGED <<stale, oldExec, retErr, outcome, events, calls, pre, now, quiet, rvars, pvars>>

\* mutant of EnsureFinalizer: a failure to persist the finalizer does not end Ensure (lines 91-93 dropped)
EnsureFinalizer_IgnoresWriteFailure ==
    /\ pc = "finalizer"
    /\ IF ~exec.deleting /\ ~exec.finalizer
       THEN \E fail \in BOOLEAN :
              LET r == UpdateResult(fail) IN
              /\ exec' = [exec EXCEPT !.finalizer = TRUE]
              /\ writes' = Append(writes, Write("W000025", r))
              /\ IF r = "ok"
                 THEN /\ stored' = [stored EXCEPT !.finalizer = TRUE]
                      /\ lsError' = "none"
                      /\ pc' = "work"
                 ELSE /\ stored' = stored
                      /\ lsError' = "none"
                      /\ pc' = "work"
       ELSE /\ pc' = "work"
            /\ UNCHANGED <<exec, writes, stored, lsError>>
    /\ UNCHANGED <<stale, oldExec, retErr, outcome, events, calls, pre, now, quiet, rvars, pvars>>

\* Ensure, lines 89-94: the finalizer is added and persisted
EnsureFinalizer ==
    /\ pc = "finalizer"
    /\ IF ~exec.deleting /\ ~exec.finalizer
       THEN \E fail \in BOOLEAN :
              LET r == UpdateResult(fail) IN
              /\ exec' = [exec EXCEPT !.finalizer = TRUE]
              /\ writes' = Append(writes, Write("W000025", r))
              /\ IF r = "ok"
                 THEN /\ stored' = [stored EXCEPT !.finalizer = TRUE]
                      /\ lsError' = "none"
                      /\ pc' = "work"
                 ELSE /\ stored' = stored
                      /\ lsError' = ErrAddFinalizer
                      /\ pc' = "post"
       ELSE /\ pc' = "work"
            /\ UNCHANGED <<exec, writes, stored, lsError>>
    /\ UNCHANGED <<stale, oldExec, retErr, outcome, events, calls, pre, now, quiet, rvars, pvars>>

\* Ensure, lines 100-102: op.Delete. Teardown that succeeds removes the
\* finalizer and the store reclaims the object.
EnsureDelete ==
    /\ pc = "work"
    /\ exec.deleting
    /\ calls' = Append(calls, "Delete")
    /\ pc' = "post"
    /\ \E ok \in BOOLEAN, ph \in {exec.status.phase, "DeleteFailed"} :
         IF ok
         THEN /\ exec' = [exec EXCEPT !.finalizer = FALSE]
              /\ stored' = [stored EXCEPT !.exists = FALSE]
              /\ lsError' = "none"
              /\ quiet' = quiet
         ELSE /\ exec' = [exec EXCEPT !.status.phase = ph]
              /\ stored' = stored
              /\ lsError' = ErrDelete
              /\ quiet' = FALSE
    /\ UNCHANGED <<stale, oldExec, retErr, outcome, writes, events, pre, now, rvars, pvars>>

\* mutant of EnsureDeployItems: the phase is not checked again after the deploy item check (lines 109-111 dropped)
EnsureDeployItems_AlwaysReconciles ==
    /\ pc = "work"
    /\ ~exec.deleting
    /\ IsCompletedExecutionPhase(exec.status.phase)
    /\ calls' = Append(calls, "HandleDeployItemPhaseAndGenerationChanges")
    /\ \E ok \in BOOLEAN, ph \in {exec.status.phase, "Init", "Progressing", "Failed"} :
         IF ~ok
         THEN /\ exec' = exec
              /\ lsError' = ErrDeployItems
              /\ pc' = "post"
              /\ quiet' = FALSE
         ELSE /\ exec' = [exec EXCEPT !.status.phase = ph]
              /\ lsError' = "none"
              /\ pc' = "main"
              /\ quiet' = (quiet /\ ph = exec.status.phase)
    /\ UNCHANGED <<stored, stale, oldExec, retErr, outcome, writes, events, pre, now, rvars, pvars>>

\* Ensure, lines 104-112: op.HandleDeployItemPhaseAndGenerationChanges on a
\* completed execution; it may take the execution out of its completed phase.
EnsureDeployItems ==
    /\ pc = "work"
    /\ ~exec.deleting
    /\ IsCompletedExecutionPhase(exec.status.phase)
    /\ calls' = Append(calls, "HandleDeployItemPhaseAndGenerationChanges")
    /\ \E ok \in BOOLEAN, ph \in {exec.status.phase, "Init", "Progressing", "Failed"} :
         IF ~ok
         THEN /\ exec' = exec
              /\ lsError' = ErrDeployItems
              /\ pc' = "post"
              /\ quiet' = FALSE
         ELSE /\ exec' = [exec EXCEPT !.status.phase = ph]
              /\ lsError' = "none"
              /\ pc' = IF IsCompletedExecutionPhase(ph) THEN "post" ELSE "main"
              /\ quiet' = (quiet /\ ph = exec.status.phase)
    /\ UNCHANGED <<stored, stale, oldExec, retErr, outcome, writes, events, pre, now, rvars, pvars>>

\* Ensure, line 114: op.Reconcile. It sets the phase, may reset LastError when
\* it succeeds, and returns an error or nil.
EnsureReconcile ==
    /\ \/ pc = "main"
       \/ pc = "work" /\ ~exec.deleting /\ ~IsCompletedExecutionPhase(exec.status.phase)
    /\ calls' = Append(calls, "Reconcile")
    /\ pc' = "post"
    /\ \E ok, clear \in BOOLEAN, ph \in {"Progressing", "Completed", "Failed"} :
         LET le == IF ok /\ clear THEN NoLastError ELSE exec.status.lastError IN
         /\ exec' = [exec EXCEPT !.status.phase = ph, !.status.lastError = le]
         /\ lsError' = IF ok THEN "none" ELSE ErrReconcile
         /\ quiet' = (quiet /\ ok /\ pc = "work" /\ ph = exec.status.phase
                            /\ le = exec.status.lastError)
    /\ UNCHANGED <<stored, stale, oldExec, retErr, outcome, writes, events, pre, now, rvars, pvars>>

\* mutant of RemoveForceReconcileAnnotation: a failed removal replaces the error of Ensure (lines 75-78 reversed)
RemoveForceReconcileAnnotation_SecondaryOverrides ==
    /\ pc = "post"
    /\ pc' = "handle"
    /\ IF HasOperation(exec, "force-reconcile")
       THEN \E fail \in BOOLEAN :
              LET r == PatchResult(fail)
                  lsErr2 == IF r = "ok" THEN "none" ELSE ErrRemoveForce
              IN  /\ exec' = [exec EXCEPT !.op = "none"]
                  /\ writes' = Append(writes, Write("W000029", r))
                  /\ stored' = IF r = "ok" THEN [stored EXCEPT !.op = "none"] ELSE stored
                  /\ events' = IF r = "ok" THEN events
                               ELSE Append(events, Event("RemoveForceReconcileAnnotation", r))
                  /\ lsError' = IF lsErr2 # "none" THEN lsErr2 ELSE lsError
       ELSE UNCHANGED <<exec, writes, stored, events, lsError>>
    /\ UNCHANGED <<stale, oldExec, retErr, outcome, calls, pre, now, quiet, rvars, pvars>>

\* mutant of RemoveForceReconcileAnnotation: the annotation is removed only when Ensure returned no error (line 74 moved under a nil test)
RemoveForceReconcileAnnotation_OnlyOnSuccess ==
    /\ pc = "post"
    /\ pc' = "handle"
    /\ IF HasOperation(exec, "force-reconcile") /\ lsError = "none"
       THEN \E fail \in BOOLEAN :
              LET r == PatchResult(fail)
                  lsErr2 == IF r = "ok" THEN "none" ELSE ErrRemoveForce
              IN  /\ exec' = [exec EXCEPT !.op = "none"]
                  /\ writes' = Append(writes, Write("W000029", r))
                  /\ stored' = IF r = "ok" THEN [stored EXCEPT !.op = "none"] ELSE stored
                  /\ events' = IF r = "ok" THEN events
                               ELSE Append(events, Event("RemoveForceReconcileAnnotation", r))
                  /\ lsError' = IF lsError = "none" THEN lsErr2 ELSE lsError
       ELSE UNCHANGED <<exec, writes, stored, events, lsError>>
    /\ UNCHANGED <<stale, oldExec, retErr, outcome, calls, pre, now, quiet, rvars, pvars>>

\* Reconcile, lines 74-80, with removeForceReconcileAnnotation, lines 117-128
RemoveForceReconcileAnnotation ==
    /\ pc = "post"
    /\ pc' = "handle"
    /\ IF HasOperation(exec, "force-reconcile")
       THEN \E fail \in BOOLEAN :
              LET r == PatchResult(fail)
                  lsErr2 == IF r = "ok" THEN "none" ELSE ErrRemoveForce
              IN  /\ exec' = [exec EXCEPT !.op = "none"]
                  /\ writes' = Append(writes, Write("W000029", r))
                  /\ stored' = IF r = "ok" THEN [stored EXCEPT !.op = "none"] ELSE stored
                  /\ events' = IF r = "ok" THEN events
                               ELSE Append(events, Event("RemoveForceReconcileAnnotation", r))
                  /\ lsError' = IF lsError = "none" THEN lsErr2 ELSE lsError
       ELSE UNCHANGED <<exec, writes, stored, events, lsError>>
    /\ UNCHANGED <<stale, oldExec, retErr, outcome, calls, pre, now, quiet, rvars, pvars>>

\* mutant of handleError: the phase is not recomputed from LastError (lines 188-192 dropped)
handleError_NoEscalation ==
    /\ pc = "handle"
    /\ pc' = "done"
    /\ outcome' = "handled"
    /\ pre' = exec.status
    /\ LET isDelete == exec.deleting IN
       IF isDelete /\ lsError = "none"
       THEN /\ retErr' = "none"
            /\ UNCHANGED <<exec, stored, writes, events>>
       ELSE \E fail \in BOOLEAN :
              LET lastError == IF lsError # "none"
                               THEN TryUpdateLsError(exec.status.lastError, lsError, now)
                               ELSE exec.status.lastError
                  phase == exec.status.phase
                  status == [exec.status EXCEPT !.lastError = lastError, !.phase = phase]
                  r == UpdateResult(fail)
              IN  /\ exec' = [exec EXCEPT !.status = status]
                  /\ events' = IF lastError # NoLastError
                               THEN Append(events, Event(lastError.err, lastError.err))
                               ELSE events
                  /\ IF oldExec.status # status
                     THEN /\ writes' = Append(writes, Write("W000031", r))
                          /\ stored' = IF r = "ok" THEN [stored EXCEPT !.status = status]
                                       ELSE stored
                          /\ retErr' = IF r = "ok" THEN lsError ELSE r
                     ELSE /\ writes' = writes
                          /\ stored' = stored
                          /\ retErr' = lsError
    /\ UNCHANGED <<stale, oldExec, lsError, calls, now, quiet, rvars, pvars>>

\* mutant of handleError: the status is written without comparing it with the old one (line 199)
handleError_AlwaysWrites ==
    /\ pc = "handle"
    /\ pc' = "done"
    /\ outcome' = "handled"
    /\ pre' = exec.status
    /\ LET isDelete == exec.deleting IN
       IF isDelete /\ lsError = "none"
       THEN /\ retErr' = "none"
            /\ UNCHANGED <<exec, stored, writes, events>>
       ELSE \E fail \in BOOLEAN :
              LET lastError == IF lsError # "none"
                               THEN TryUpdateLsError(exec.status.lastError, lsError, now)
                               ELSE exec.status.lastError
                  phase == GetPhaseForLastError(exec.status.phase, lastError, ErrorThreshold)
                  status == [exec.status EXCEPT !.lastError = lastError, !.phase = phase]
                  r == UpdateResult(fail)
              IN  /\ exec' = [exec EXCEPT !.status = status]
                  /\ events' = IF lastError # NoLastError
                               THEN Append(events, Event(lastError.err, lastError.err))
                               ELSE events
                  /\ IF TRUE
                     THEN /\ writes' = Append(writes, Write("W000031", r))
                          /\ stored' = IF r = "ok" THEN [stored EXCEPT !.status = status]
                                       ELSE stored
                          /\ retErr' = IF r = "ok" THEN lsError ELSE r
                     ELSE /\ writes' = writes
                          /\ stored' = stored
                          /\ retErr' = lsError
    /\ UNCHANGED <<stale, oldExec, lsError, calls, now, quiet, rvars, pvars>>

\* mutant of handleError: a successful deletion is not returned early (lines 175-177 dropped)
handleError_NoDeleteShortcut ==
    /\ pc = "handle"
    /\ pc' = "done"
    /\ outcome' = "handled"
    /\ pre' = exec.status
    /\ LET isDelete == exec.deleting IN
       IF FALSE
       THEN /\ retErr' = "none"
            /\ UNCHANGED <<exec, stored, writes, events>>
       ELSE \E fail \in BOOLEAN :
              LET lastError == IF lsError # "none"
                               THEN TryUpdateLsError(exec.status.lastError, lsError, now)
                               ELSE exec.status.lastError
                  phase == GetPhaseForLastError(exec.status.phase, lastError, ErrorThreshold)
                  status == [exec.status EXCEPT !.lastError = lastError, !.phase = phase]
                  r == UpdateResult(fail)
              IN  /\ exec' = [exec EXCEPT !.status = status]
                  /\ events' = IF lastError # NoLastError
                               THEN Append(events, Event(lastError.err, lastError.err))
                               ELSE events
                  /\ IF oldExec.status # status
                     THEN /\ writes' = Append(writes, Write("W000031", r))
                          /\ stored' = IF r = "ok" THEN [stored EXCEPT !.status = status]
                                       ELSE stored
                          /\ retErr' = IF r = "ok" THEN lsError ELSE r
                     ELSE /\ writes' = writes
                          /\ stored' = stored
                          /\ retErr' = lsError
    /\ UNCHANGED <<stale, oldExec, lsError, calls, now, quiet, rvars, pvars>>

\* mutant of handleError: the warning event is emitted only when the phase is Failed (line 194 with a phase test)
handleError_EventOnlyWhenFailed ==
    /\ pc = "handle"
    /\ pc' = "done"
    /\ outcome' = "handled"
    /\ pre' = exec.status
    /\ LET isDelete == exec.deleting IN
       IF isDelete /\ lsError = "none"
       THEN /\ retErr' = "none"
            /\ UNCHANGED <<exec, stored, writes, events>>
       ELSE \E fail \in BOOLEAN :
              LET lastError == IF lsError # "none"
                               THEN TryUpdateLsError(exec.status.lastError, lsError, now)
                               ELSE exec.status.lastError
                  phase == GetPhaseForLastError(exec.status.phase, lastError, ErrorThreshold)
                  status == [exec.status EXCEPT !.lastError = lastError, !.phase = phase]
                  r == UpdateResult(fail)
              IN  /\ exec' = [exec EXCEPT !.status = status]
                  /\ events' = IF lastError # NoLastError /\ phase = "Failed"
                               THEN Append(events, Event(lastError.err, lastError.err))
                               ELSE events
                  /\ IF oldExec.status # status
                     THEN /\ writes' = Append(writes, Write("W000031", r))
                          /\ stored' = IF r = "ok" THEN [stored EXCEPT !.status = status]
                                       ELSE stored
                          /\ retErr' = IF r = "ok" THEN lsError ELSE r
                     ELSE /\ writes' = writes
                          /\ stored' = stored
                          /\ retErr' = lsError
    /\ UNCHANGED <<stale, oldExec, lsError, calls, now, quiet, rvars, pvars>>

\* mutant of handleError: a failed status write is logged and not returned (line 207 dropped)
handleError_SwallowsWriteFailure ==
    /\ pc = "handle"
    /\ pc' = "done"
    /\ outcome' = "handled"
    /\ pre' = exec.status
    /\ LET isDelete == exec.deleting IN
       IF isDelete /\ lsError = "none"
       THEN /\ retErr' = "none"
            /\ UNCHANGED <<exec, stored, writes, events>>
       ELSE \E fail \in BOOLEAN :
              LET lastError == IF lsError # "none"
                               THEN TryUpdateLsError(exec.status.lastError, lsError, now)
                               ELSE exec.status.lastError
                  phase == GetPhaseForLastError(exec.status.phase, lastError, ErrorThreshold)
                  status == [exec.status EXCEPT !.lastError = lastError, !.phase = phase]
                  r == UpdateResult(fail)
              IN  /\ exec' = [exec EXCEPT !.status = status]
                  /\ events' = IF lastError # NoLastError
                               THEN Append(events, Event(lastError.err, lastError.err))
                               ELSE events
                  /\ IF oldExec.status # status
                     THEN /\ writes' = Append(writes, Write("W000031", r))
                          /\ stored' = IF r = "ok" THEN [stored EXCEPT !.status = status]
                                       ELSE stored
                          /\ retErr' = lsError
                     ELSE /\ writes' = writes
                          /\ stored' = stored
                          /\ retErr' = lsError
    /\ UNCHANGED <<stale, oldExec, lsError, calls, now, quiet, rvars, pvars>>

\* mutant of handleError: the warning event is emitted only once the status is persisted (lines 194-197 moved behind the write)
handleError_EventAfterWrite ==
    /\ pc = "handle"
    /\ pc' = "done"
    /\ outcome' = "handled"
    /\ pre' = exec.status
    /\ LET isDelete == exec.deleting IN
       IF isDelete /\ lsError = "none"
       THEN /\ retErr' = "none"
            /\ UNCHANGED <<exec, stored, writes, events>>
       ELSE \E fail \in BOOLEAN :
              LET lastError == IF lsError # "none"
                               THEN TryUpdateLsError(exec.status.lastError, lsError, now)
                               ELSE exec.status.lastError
                  phase == GetPhaseForLastError(exec.status.phase, lastError, ErrorThreshold)
                  status == [exec.status EXCEPT !.lastError = lastError, !.phase = phase]
                  r == UpdateResult(fail)
              IN  /\ exec' = [exec EXCEPT !.status = status]
                  /\ events' = IF lastError # NoLastError /\ (oldExec.status = status \/ r = "ok")
                               THEN Append(events, Event(lastError.err, lastError.err))
                               ELSE events
                  /\ IF oldExec.status # status
                     THEN /\ writes' = Append(writes, Write("W000031", r))
                          /\ stored' = IF r = "ok" THEN [stored EXCEPT !.status = status]
                                       ELSE stored
                          /\ retErr' = IF r = "ok" THEN lsError ELSE r
                     ELSE /\ writes' = writes
                          /\ stored' = stored
                          /\ retErr' = lsError
    /\ UNCHANGED <<stale, oldExec, lsError, calls, now, quiet, rvars, pvars>>

\* handleError, lines 172-211
handleError ==
    /\ pc = "handle"
    /\ pc' = "done"
    /\ outcome' = "handled"
    /\ pre' = exec.status
    /\ LET isDelete == exec.deleting IN
       IF isDelete /\ lsError = "none"
       THEN /\ retErr' = "none"
            /\ UNCHANGED <<exec, stored, writes, events>>
       ELSE \E fail \in BOOLEAN :
              LET lastError == IF lsError # "none"
                               THEN TryUpdateLsError(exec.status.lastError, lsError, now)
                               ELSE exec.status.lastError
                  phase == GetPhaseForLastError(exec.status.phase, lastError, ErrorThreshold)
                  status == [exec.status EXCEPT !.lastError = lastError, !.phase = phase]
                  r == UpdateResult(fail)
              IN  /\ exec' = [exec EXCEPT !.status = status]
                  /\ events' = IF lastError # NoLastError
                               THEN Append(events, Event(lastError.err, lastError.err))
                               ELSE events
                  /\ IF oldExec.status # status
                     THEN /\ writes' = Append(writes, Write("W000031", r))
                          /\ stored' = IF r = "ok" THEN [stored EXCEPT !.status = status]
                                       ELSE stored
                          /\ retErr' = IF r = "ok" THEN lsError ELSE r
                     ELSE /\ writes' = writes
                          /\ stored' = stored
                          /\ retErr' = lsError
    /\ UNCHANGED <<stale, oldExec, lsError, calls, now, quiet, rvars, pvars>>

\* Reconcile has returned; the work queue may invoke it again. The next
\* invocation is a repetition when this one returned success and the object was
\* not changed by anyone else after this one had read it.
Finish ==
    /\ pc = "done"
    /\ pc' = "idle"
    /\ quiet' = (retErr = "none" /\ ~stale)
    /\ exec' = NewExecution
    /\ oldExec' = NewExecution
    /\ pre' = Status("Init", 0, NoLastError)
    /\ lsError' = "none"
    /\ retErr' = "none"
    /\ outcome' = "none"
    /\ writes' = <<>>
    /\ events' = <<>>
    /\ calls' = <<>>
    /\ stale' = FALSE
    /\ UNCHANGED <<stored, now, rvars, pvars>>

\* ------------------------------------------------------- export constructor

NumKeys == 2
NumSibs == 2

\* export keys (root.y, root.z, ...) and the sibling installations of the context
Keys == 1..NumKeys
Sibs == 1..NumSibs

\* the declared export keys: a sequence of pairwise distinct keys
DeclaredChoices ==
    {d \in UNION {[1..n -> Keys] : n \in 0..NumKeys} :
        \A a, b \in 1..Len(d) : a # b => d[a] # d[b]}

\* a DataObject: Key, Data and the sibling it comes from (None: the execution).
\* The data of the execution's output is ExecValue, a sibling's is its own.
ExecValue == 0
SiblingValue(s) == s
DataObject(k, data, ref) == [key |-> k, data |-> data, sourceRef |-> ref]
NoObject == DataObject(None, None, None)

EInit ==
    /\ declared \in DeclaredChoices
    /\ execOutput \in SUBSET Keys
    /\ sibPhase \in [Sibs -> {"Progressing", "Completed"}]
    /\ sibExports \in [Sibs -> SUBSET Keys]
    /\ epc = "idle"
    /\ cursor = 0
    /\ candidates = [k \in Keys |-> NoObject]
    /\ exported = <<>>
    /\ eerr = FALSE

\* Construct is called
Construct ==
    /\ epc = "idle"
    /\ epc' = "execution"
    /\ UNCHANGED <<declared, execOutput, sibPhase, sibExports, cursor, candidates, exported, eerr>>
    /\ UNCHANGED <<rvars, cvars, ovars, wvars>>

\* step 1: every declared key the execution output provides becomes a DataObject
CollectExecution ==
    /\ epc = "execution"
    /\ candidates' = [k \in Keys |->
                        IF k \in execOutput /\ \E n \in 1..Len(declared) : declared[n] = k
                        THEN DataObject(k, ExecValue, None)
                        ELSE NoObject]
    /\ cursor' = 1
    /\ epc' = "siblings"
    /\ UNCHANGED <<declared, execOutput, sibPhase, sibExports, exported, eerr>>
    /\ UNCHANGED <<rvars, cvars, ovars, wvars>>

\* the completed siblings that export key k
SiblingSources(k) ==
    {s \in Sibs : IsCompletedInstallationPhase(sibPhase[s]) /\ k \in sibExports[s]}

\* mutant of SearchSiblings: a sibling's export replaces the value the execution output provided (the precedence test dropped)
SearchSiblings_SiblingOverrides ==
    /\ epc = "siblings"
    /\ cursor <= Len(declared)
    /\ LET k == declared[cursor] IN
       IF candidates[k] # NoObject /\ SiblingSources(k) = {}
       THEN /\ cursor' = cursor + 1
            /\ UNCHANGED <<candidates, epc, eerr>>
       ELSE IF SiblingSources(k) = {}
       THEN /\ epc' = "done"
            /\ eerr' = TRUE
            /\ UNCHANGED <<candidates, cursor>>
       ELSE \E s \in SiblingSources(k) :
              /\ candidates' = [candidates EXCEPT ![k] = DataObject(k, SiblingValue(s), s)]
              /\ cursor' = cursor + 1
              /\ UNCHANGED <<epc, eerr>>
    /\ UNCHANGED <<declared, execOutput, sibPhase, sibExports, exported>>
    /\ UNCHANGED <<rvars, cvars, ovars, wvars>>

\* steps 2 to 4, for the declared key at the cursor: a key the execution did not
\* provide is taken from a completed sibling that exports it (whichever the
\* enumeration of the siblings finds); a key without any source is an error
SearchSiblings ==
    /\ epc = "siblings"
    /\ cursor <= Len(declared)
    /\ LET k == declared[cursor] IN
       IF candidates[k] # NoObject
       THEN /\ cursor' = cursor + 1
            /\ UNCHANGED <<candidates, epc, eerr>>
       ELSE IF SiblingSources(k) = {}
       THEN /\ epc' = "done"
            /\ eerr' = TRUE
            /\ UNCHANGED <<candidates, cursor>>
       ELSE \E s \in SiblingSources(k) :
              /\ candidates' = [candidates EXCEPT ![k] = DataObject(k, SiblingValue(s), s)]
              /\ cursor' = cursor + 1
              /\ UNCHANGED <<epc, eerr>>
    /\ UNCHANGED <<declared, execOutput, sibPhase, sibExports, exported>>
    /\ UNCHANGED <<rvars, cvars, ovars, wvars>>

\* mutant of ConstructReturn: the export set is emitted in the order of the keys of the candidate map, not of the declaration
ConstructReturn_KeyOrder ==
    /\ epc = "siblings"
    /\ cursor > Len(declared)
    /\ exported' = SelectSeq([k \in 1..NumKeys |-> candidates[k]], LAMBDA o : o # NoObject)
    /\ epc' = "done"
    /\ UNCHANGED <<declared, execOutput, sibPhase, sibExports, cursor, candidates, eerr>>
    /\ UNCHANGED <<rvars, cvars, ovars, wvars>>

\* step 5: the export set, in the order of the declared keys
ConstructReturn ==
    /\ epc = "siblings"
    /\ cursor > Len(declared)
    /\ exported' = [n \in 1..Len(declared) |-> candidates[declared[n]]]
    /\ epc' = "done"
    /\ UNCHANGED <<declared, execOutput, sibPhase, sibExports, cursor, candidates, eerr>>
    /\ UNCHANGED <<rvars, cvars, ovars, wvars>>

ENext ==
    \/ Construct
    \/ CollectExecution
    \/ SearchSiblings
    \/ ConstructReturn

\* the export constructor's part of the state while it is not studied
EStill ==
    /\ declared = <<>>
    /\ execOutput = {}
    /\ sibPhase = [s \in Sibs |-> "Completed"]
    /\ sibExports = [s \in Sibs |-> {}]
    /\ epc = "idle"
    /\ cursor = 0
    /\ candidates = [k \in Keys |-> NoObject]
    /\ exported = <<>>
    /\ eerr = FALSE

\* --------------------------------------------------------- outdated imports

MaxConfigGen == 1
MaxImportStatus == 2

ConfigGens == 0..MaxConfigGen

\* an import status: where the import comes from (the parent, a sibling, a
\* manually provided data import) and the ConfigGeneration last consumed
ImportStatusChoices ==
    [kind : {"parent", "manual"}, src : {None}, recorded : ConfigGens]
        \cup [kind : {"sibling"}, src : Sibs, recorded : ConfigGens]

OInit ==
    /\ parentGen \in ConfigGens
    /\ sibGen \in [Sibs -> ConfigGens]
    /\ dataGen \in ConfigGens
    /\ impStatus \in UNION {[1..n -> ImportStatusChoices] : n \in 0..MaxImportStatus}
    /\ opc = "idle"
    /\ oidx = 0
    /\ outdated = FALSE

\* mutant of CurrentConfigGeneration: a manually provided data import is taken to be at the recorded ConfigGeneration
CurrentConfigGeneration_ManualNeverChanges(imp) ==
    IF imp.kind = "parent" THEN parentGen
    ELSE IF imp.kind = "sibling" THEN sibGen[imp.src]
    ELSE imp.recorded

\* the ConfigGeneration the source of an import has now
CurrentConfigGeneration(imp) ==
    IF imp.kind = "parent" THEN parentGen
    ELSE IF imp.kind = "sibling" THEN sibGen[imp.src]
    ELSE dataGen

\* OutdatedImports is called
OutdatedImports ==
    /\ opc = "idle"
    /\ opc' = "loop"
    /\ oidx' = 1
    /\ UNCHANGED <<parentGen, sibGen, dataGen, impStatus, outdated>>
    /\ UNCHANGED <<rvars, cvars, evars, wvars>>

\* one import: outdated when its source's ConfigGeneration is not the recorded
\* one, and then the answer is true at once
CheckImport ==
    /\ opc = "loop"
    /\ oidx <= Len(impStatus)
    /\ IF CurrentConfigGeneration(impStatus[oidx]) # impStatus[oidx].recorded
       THEN /\ outdated' = TRUE
            /\ opc' = "done"
            /\ oidx' = oidx
       ELSE /\ oidx' = oidx + 1
            /\ UNCHANGED <<outdated, opc>>
    /\ UNCHANGED <<parentGen, sibGen, dataGen, impStatus>>
    /\ UNCHANGED <<rvars, cvars, evars, wvars>>

\* no import was outdated
OutdatedReturn ==
    /\ opc = "loop"
    /\ oidx > Len(impStatus)
    /\ outdated' = FALSE
    /\ opc' = "done"
    /\ UNCHANGED <<parentGen, sibGen, dataGen, impStatus, oidx>>
    /\ UNCHANGED <<rvars, cvars, evars, wvars>>

ONext ==
    \/ OutdatedImports
    \/ CheckImport
    \/ OutdatedReturn

\* the outdated-imports check's part of the state while it is not studied
OStill ==
    /\ parentGen = 0
    /\ sibGen = [s \in Sibs |-> 0]
    /\ dataGen = 0
    /\ impStatus = <<>>
    /\ opc = "idle"
    /\ oidx = 0
    /\ outdated = FALSE

\* ------------------------------------------------ parallel workers on the store

NumIds == 2
NumWorkers == 2
MaxObjGeneration == 2
MaxRuns == 1

\* the identities (namespaced names) of the executions, and the parallel workers
Ids == 1..NumIds
Workers == 1..NumWorkers

WStatus(og, ph, le) == [observedGeneration |-> og, phase |-> ph, hasError |-> le]

\* an execution as the store holds it; its spec is identified by its generation
WObject(g, o) ==
    [generation |-> g, op |-> o, finalizer |-> FALSE, status |-> WStatus(0, "Init", FALSE)]

\* a worker's copy of an execution: the object with the name it was read under
WCopy(i, o) ==
    [name |-> i, generation |-> o.generation, op |-> o.op, finalizer |-> o.finalizer,
     status |-> o.status]

\* a worker that has run n invocations and waits for the next request
WIdle(n) ==
    [req |-> None, pc |-> "idle", stale |-> FALSE, exec |-> WCopy(None, WObject(1, "none")),
     old |-> WCopy(None, WObject(1, "none")), err |-> FALSE, ret |-> "none", runs |-> n]

WWrite(id, t, res) == [id |-> id, target |-> t, res |-> res]

WInit ==
    /\ objs \in [Ids -> {WObject(1, o) : o \in {"none", "reconcile", "force-reconcile"}}]
    /\ wk = [w \in Workers |-> WIdle(0)]
    /\ wlog = [w \in Workers |-> <<>>]

\* Update / UpdateStatus of the worker's copy: rejected as a conflict when the
\* object changed in the store since the worker read it
WUpdateResult(w, fail) ==
    IF wk[w].stale THEN "conflict"
    ELSE IF fail THEN "failed"
    ELSE "ok"

\* Patch(object, old): a merge patch, no comparison of versions
WPatchResult(fail) == IF fail THEN "failed" ELSE "ok"

\* what Update stores of the copy e over the stored object o: metadata and spec
WStoreObject(e, o) ==
    [o EXCEPT !.generation = e.generation, !.op = e.op, !.finalizer = e.finalizer]

\* another writer changes the spec of execution i: the store bumps its
\* generation, and the copy of a worker that has read it is out of date
WUpdateSpec(i) ==
    /\ objs[i].generation < MaxObjGeneration
    /\ objs' = [objs EXCEPT ![i].generation = @ + 1]
    /\ wk' = [w \in Workers |->
                IF wk[w].req = i /\ wk[w].pc \notin {"idle", "done"}
                THEN [wk[w] EXCEPT !.stale = TRUE] ELSE wk[w]]
    /\ UNCHANGED <<wlog, rvars, cvars, evars, ovars>>

\* Reconcile, lines 51-70, for request i on worker w; the work queue hands out
\* an identity to one worker at a time
WReconcileStart(w, i) ==
    /\ wk[w].pc = "idle"
    /\ wk[w].runs < MaxRuns
    /\ \A v \in Workers : wk[v].pc = "idle" \/ wk[v].req # i
    /\ wk' = [wk EXCEPT ![w] = [req |-> i, pc |-> "ensure", stale |-> FALSE,
                                exec |-> WCopy(i, objs[i]), old |-> WCopy(i, objs[i]),
                                err |-> FALSE, ret |-> "none", runs |-> wk[w].runs + 1]]
    /\ wlog' = [wlog EXCEPT ![w] = <<>>]
    /\ UNCHANGED <<objs, rvars, cvars, evars, ovars>>

\* HandleAnnotationsAndGeneration, lines 137-170, on worker w
WHandleAnnotationsAndGeneration(w) ==
    /\ wk[w].pc = "ensure"
    /\ \E failStatus, failMeta \in BOOLEAN :
         LET e == wk[w].exec
             t == e.name
             hasReconcileAnnotation == e.op = "reconcile"
             hasForceReconcileAnnotation == e.op = "force-reconcile"
             needed == \/ hasReconcileAnnotation
                       \/ hasForceReconcileAnnotation
                       \/ e.status.observedGeneration # e.generation
             e1 == IF needed
                   THEN [e EXCEPT !.status.observedGeneration = e.generation,
                                  !.status.phase = "Init"]
                   ELSE e
             r1 == WUpdateResult(w, failStatus)
             l1 == IF needed THEN <<WWrite("W000033", t, r1)>> ELSE <<>>
             ok1 == ~needed \/ r1 = "ok"
             o1 == IF needed /\ r1 = "ok" THEN [objs[t] EXCEPT !.status = e1.status] ELSE objs[t]
             e2 == IF hasReconcileAnnotation THEN [e1 EXCEPT !.op = "none"] ELSE e1
             r2 == WUpdateResult(w, failMeta)
             l2 == IF hasReconcileAnnotation THEN <<WWrite("W000027", t, r2)>> ELSE <<>>
         IN  IF ~ok1
             THEN /\ wk' = [wk EXCEPT ![w].exec = e1, ![w].err = TRUE, ![w].pc = "post"]
                  /\ objs' = objs
                  /\ wlog' = [wlog EXCEPT ![w] = @ \o l1]
             ELSE IF hasReconcileAnnotation /\ r2 # "ok"
             THEN /\ wk' = [wk EXCEPT ![w].exec = e2, ![w].err = TRUE, ![w].pc = "post"]
                  /\ objs' = [objs EXCEPT ![t] = o1]
                  /\ wlog' = [wlog EXCEPT ![w] = @ \o l1 \o l2]
             ELSE /\ wk' = [wk EXCEPT ![w].exec = e2, ![w].pc = "finalizer"]
                  /\ objs' = [objs EXCEPT ![t] = IF hasReconcileAnnotation
                                                 THEN WStoreObject(e2, o1) ELSE o1]
                  /\ wlog' = [wlog EXCEPT ![w] = @ \o l1 \o l2]
    /\ UNCHANGED <<rvars, cvars, evars, ovars>>

\* Ensure, lines 89-114, on worker w: the finalizer is added and persisted, then
\* the execution layer does its work on the copy
WEnsure(w) ==
    /\ wk[w].pc = "finalizer"
    /\ \E fail, ok \in BOOLEAN, ph \in {"Progressing", "Completed"} :
         LET e == wk[w].exec
             t == e.name
             add == ~e.finalizer
             e1 == [e EXCEPT !.finalizer = TRUE]
             r == WUpdateResult(w, fail)
             l == IF add THEN <<WWrite("W000025", t, r)>> ELSE <<>>
         IN  /\ wlog' = [wlog EXCEPT ![w] = @ \o l]
             /\ IF add /\ r # "ok"
                THEN /\ wk' = [wk EXCEPT ![w].exec = e1, ![w].err = TRUE, ![w].pc = "post"]
                     /\ objs' = objs
                ELSE /\ wk' = [wk EXCEPT ![w].exec = [e1 EXCEPT !.status.phase = ph],
                                         ![w].err = ~ok, ![w].pc = "post"]
                     /\ objs' = IF add THEN [objs EXCEPT ![t] = WStoreObject(e1, @)] ELSE objs
    /\ UNCHANGED <<rvars, cvars, evars, ovars>>

\* removeForceReconcileAnnotation, lines 117-128, on worker w
WRemoveForceReconcileAnnotation(w) ==
    /\ wk[w].pc = "post"
    /\ LET e == wk[w].exec
           t == e.name
       IN  IF e.op = "force-reconcile"
           THEN \E fail \in BOOLEAN :
                  LET r == WPatchResult(fail) IN
                  /\ wk' = [wk EXCEPT ![w].exec = [e EXCEPT !.op = "none"],
                                      ![w].err = (wk[w].err \/ r # "ok"),
                                      ![w].pc = "handle"]
                  /\ wlog' = [wlog EXCEPT ![w] = Append(@, WWrite("W000029", t, r))]
                  /\ objs' = IF r = "ok" THEN [objs EXCEPT ![t].op = "none"] ELSE objs
           ELSE /\ wk' = [wk EXCEPT ![w].pc = "handle"]
                /\ UNCHANGED <<wlog, objs>>
    /\ UNCHANGED <<rvars, cvars, evars, ovars>>

\* mutant of WhandleError: a status write that met a conflict is repeated on the object as it is in the store now (line 207 replaced by a retry)
WhandleError_RetriesOnConflict(w) ==
    /\ wk[w].pc = "handle"
    /\ \E fail \in BOOLEAN :
         LET e == wk[w].exec
             t == e.name
             status == IF wk[w].err THEN [e.status EXCEPT !.hasError = TRUE] ELSE e.status
             err == IF wk[w].err THEN "error" ELSE "none"
             r == WUpdateResult(w, fail)
         IN  IF wk[w].old.status # status
             THEN /\ wlog' = [wlog EXCEPT ![w] = IF r = "conflict"
                                                 THEN @ \o <<WWrite("W000031", t, r), WWrite("W000031", t, "ok")>>
                                                 ELSE Append(@, WWrite("W000031", t, r))]
                  /\ objs' = IF r \in {"ok", "conflict"} THEN [objs EXCEPT ![t].status = status] ELSE objs
                  /\ wk' = [wk EXCEPT ![w].exec.status = status, ![w].pc = "done",
                                      ![w].ret = IF r \in {"ok", "conflict"} THEN err ELSE r]
             ELSE /\ wk' = [wk EXCEPT ![w].exec.status = status, ![w].pc = "done",
                                      ![w].ret = err]
                  /\ UNCHANGED <<wlog, objs>>
    /\ UNCHANGED <<rvars, cvars, evars, ovars>>

\* handleError, lines 172-211, on worker w
WhandleError(w) ==
    /\ wk[w].pc = "handle"
    /\ \E fail \in BOOLEAN :
         LET e == wk[w].exec
             t == e.name
             status == IF wk[w].err THEN [e.status EXCEPT !.hasError = TRUE] ELSE e.status
             err == IF wk[w].err THEN "error" ELSE "none"
             r == WUpdateResult(w, fail)
         IN  IF wk[w].old.status # status
             THEN /\ wlog' = [wlog EXCEPT ![w] = Append(@, WWrite("W000031", t, r))]
                  /\ objs' = IF r = "ok" THEN [objs EXCEPT ![t].status = status] ELSE objs
                  /\ wk' = [wk EXCEPT ![w].exec.status = status, ![w].pc = "done",
                                      ![w].ret = IF r = "ok" THEN err ELSE r]
             ELSE /\ wk' = [wk EXCEPT ![w].exec.status = status, ![w].pc = "done",
                                      ![w].ret = err]
                  /\ UNCHANGED <<wlog, objs>>
    /\ UNCHANGED <<rvars, cvars, evars, ovars>>

\* Reconcile has returned on worker w
WFinish(w) ==
    /\ wk[w].pc = "done"
    /\ wk' = [wk EXCEPT ![w] = WIdle(wk[w].runs)]
    /\ wlog' = [wlog EXCEPT ![w] = <<>>]
    /\ UNCHANGED <<objs, rvars, cvars, evars, ovars>>

WNext ==
    \/ \E i \in Ids : WUpdateSpec(i)
    \/ \E w \in Workers, i \in Ids : WReconcileStart(w, i)
    \/ \E w \in Workers : WHandleAnnotationsAndGeneration(w)
    \/ \E w \in Workers : WEnsure(w)
    \/ \E w \in Workers : WRemoveForceReconcileAnnotation(w)
    \/ \E w \in Workers : WhandleError(w)
    \/ \E w \in Workers : WFinish(w)

\* the workers' part of the state while something else is studied
WStill ==
    /\ objs = [i \in Ids |-> WObject(1, "none")]
    /\ wk = [w \in Workers |-> WIdle(0)]
    /\ wlog = [w \in Workers |-> <<>>]

Next ==
    \/ UpdateSpec
    \/ \E o \in {"reconcile", "force-reconcile"} : Annotate(o)
    \/ \E b \in BOOLEAN : SetIgnore(b)
    \/ DeleteExecution
    \/ Tick
    \/ ReconcileStart
    \/ HandleAnnotationsAndGeneration
    \/ EnsureFinalizer
    \/ EnsureDelete
    \/ EnsureDeployItems
    \/ EnsureReconcile
    \/ RemoveForceReconcileAnnotation
    \/ handleError
    \/ Finish

vars == <<rvars, cvars, pvars>>

\* the resolver's part of the state while the controller is studied: an empty walk
\* over a store without imports
RStill ==
    /\ instPhase = [i \in Insts |-> "Completed"]
    /\ instParent = [i \in Insts |-> None]
    /\ instImports = [i \in Insts |-> <<>>]
    /\ stack = <<>>
    /\ rpc = "idle"
    /\ ret = Result(TRUE, FALSE)
    /\ call = [fn |-> "none", inst |-> None]
    /\ fetched = {}
    /\ lookups = {}
    /\ lastStep = NoStep

Init == CInit /\ RStill /\ EStill /\ OStill /\ WStill

\* the execution controller
Spec == Init /\ [][Next]_vars

\* the dependency resolver; the controller is idle
InitResolver ==
    /\ RInit
    /\ CInit
    /\ EStill
    /\ OStill
    /\ WStill

SpecResolver == InitResolver /\ [][RNext]_vars

\* the export constructor, applied to every export declaration, execution
\* output and set of siblings within the bounds
InitExports ==
    /\ EInit
    /\ CInit
    /\ RStill
    /\ OStill
    /\ WStill

SpecExports == InitExports /\ [][ENext]_vars

\* the outdated-imports check, applied to every import status within the bounds
InitOutdated ==
    /\ OInit
    /\ CInit
    /\ RStill
    /\ EStill
    /\ WStill

SpecOutdated == InitOutdated /\ [][ONext]_vars

\* parallel workers reconciling several executions of one store
InitWorkers ==
    /\ WInit
    /\ CInit
    /\ RStill
    /\ EStill
    /\ OStill

SpecWorkers == InitWorkers /\ [][WNext]_vars

\* ----------------------------------------------- controller: stated properties

StatusWriteIds == {"W000031", "W000033"}
DeployItemCheck == "HandleDeployItemPhaseAndGenerationChanges"

\* the invocation has gone past its read, so oldExec is the object as read
Entered == pc \in {"ensure", "finalizer", "work", "main", "post", "handle"}
               \/ (pc = "done" /\ outcome = "handled")

\* the object as read asks for normalization
NormalizationNeeded(e) ==
    \/ e.op = "reconcile"
    \/ e.op = "force-reconcile"
    \/ e.status.observedGeneration # e.generation

PhaseAfterNormalization(e) ==
    IF NormalizationNeeded(e) THEN "Init" ELSE e.status.phase

HasWrite(id, res) == \E n \in 1..Len(writes) : writes[n] = Write(id, res)

\* C4: after HandleAnnotationsAndGeneration has returned without error: if the
\* execution as read carried the reconcile or force-reconcile annotation or had
\* ObservedGeneration # Generation, then ObservedGeneration = Generation, Phase =
\* Init and that status is in the store; otherwise status and metadata are as
\* read and no write was issued.
C4_Normalization ==
    (pc = "finalizer") =>
        IF NormalizationNeeded(oldExec)
        THEN /\ exec.status.observedGeneration = exec.generation
             /\ exec.status.phase = "Init"
             /\ HasWrite("W000033", "ok")
             /\ stored.status = exec.status
        ELSE /\ exec = oldExec
             /\ writes = <<>>

\* C4 witness: a Completed execution with the force-reconcile annotation was reset
C4_Witness ==
    /\ pc = "finalizer"
    /\ oldExec.op = "force-reconcile"
    /\ oldExec.status.phase = "Completed"
    /\ oldExec.status.observedGeneration = oldExec.generation
    /\ stored.status.phase = "Init"

\* how long the error handleError was given has persisted: since the recorded
\* LastError was first seen when that is the same error, else not at all
Persisted ==
    IF pre.lastError # NoLastError /\ pre.lastError.err = lsError
    THEN now - pre.lastError.first
    ELSE 0

\* C5: when handleError is given an error that has persisted for less than the
\* threshold, the phase after it is the phase before the error policy was
\* applied; when the same error is seen again after more than the threshold,
\* the phase is Failed.
C5_Backoff ==
    (pc = "done" /\ outcome = "handled" /\ lsError # "none") =>
        /\ Persisted < ErrorThreshold => exec.status.phase = pre.phase
        /\ Persisted > ErrorThreshold => exec.status.phase = "Failed"

\* C5 witness: an error seen again after the threshold turns a phase into Failed
C5_Witness ==
    /\ pc = "done"
    /\ outcome = "handled"
    /\ lsError # "none"
    /\ Persisted > ErrorThreshold
    /\ pre.phase = "Progressing"
    /\ exec.status.phase = "Failed"

C7_Ignore ==
    /\ Entered => ~(oldExec.ignore /\ IsCompletedExecutionPhase(oldExec.status.phase))
    /\ (pc = "done" /\ outcome = "ignored") =>
          /\ exec.ignore
          /\ IsCompletedExecutionPhase(exec.status.phase)
          /\ calls = <<>>
          /\ writes = <<>>
          /\ events = <<>>
          /\ retErr = "none"
          /\ stored = exec

\* C7 witness: skipped although the reconcile annotation is set
C7_Witness ==
    /\ pc = "done"
    /\ outcome = "ignored"
    /\ stored.op = "reconcile"
    /\ stored.status.phase = "Completed"

\* C8: a reconcile annotation is removed, and the removal persisted, by the
\* normalization, before the main work; a force-reconcile annotation is on the
\* object while Ensure runs, is not removed before Ensure has returned, and a
\* Completed execution that carries it gets the main reconcile instead of the
\* fast path; after an invocation that went through Ensure and returned
\* success neither annotation is left.
C8_AnnotationOrder ==
    /\ (pc \in {"finalizer", "work", "main"} /\ oldExec.op = "reconcile") =>
          /\ exec.op = "none"
          /\ stored.op = "none"
          /\ HasWrite("W000027", "ok")
    /\ (pc \in {"finalizer", "work", "main", "post"} /\ oldExec.op = "force-reconcile") =>
          /\ exec.op = "force-reconcile"
          /\ stored.op = "force-reconcile"
          /\ "W000029" \notin WriteIds(writes)
    /\ (pc \in {"work", "main"} /\ oldExec.op = "force-reconcile") =>
          ~IsCompletedExecutionPhase(exec.status.phase)
    /\ (pc = "post" /\ oldExec.op = "force-reconcile" /\ ~oldExec.deleting /\ calls # <<>>) =>
          calls = <<"Reconcile">>
    /\ (pc \in {"handle", "done"} /\ Entered) => exec.op # "force-reconcile"
    /\ (pc = "done" /\ outcome = "handled" /\ retErr = "none") =>
          /\ exec.op = "none"
          /\ stored.exists => stored.op = "none"

\* C8 witness: Ensure has run the main reconcile for a Completed execution and
\* the force-reconcile annotation is still there
C8_Witness ==
    /\ pc = "post"
    /\ oldExec.op = "force-reconcile"
    /\ oldExec.status.phase = "Completed"
    /\ calls = <<"Reconcile">>
    /\ exec.op = "force-reconcile"
    /\ stored.op = "force-reconcile"

\* C9: for an execution without deletion timestamp whose phase is completed
\* after normalization, the first thing Ensure calls is the deploy item check;
\* when that succeeds and the phase is still completed Ensure returns nil
\* without the main reconcile; the main reconcile follows only when the phase
\* is no longer completed.
C9_FastPath ==
    /\ (Entered /\ calls # <<>> /\ ~oldExec.deleting) =>
          (IsCompletedExecutionPhase(PhaseAfterNormalization(oldExec))
              <=> calls[1] = DeployItemCheck)
    /\ (pc = "main") =>
          /\ calls = <<DeployItemCheck>>
          /\ lsError = "none"
          /\ ~IsCompletedExecutionPhase(exec.status.phase)
    /\ (pc = "post" /\ calls = <<DeployItemCheck>>) =>
          IF IsCompletedExecutionPhase(exec.status.phase)
          THEN lsError \in {"none", ErrDeployItems}
          ELSE lsError = ErrDeployItems
    /\ (Entered /\ Len(calls) > 1) => calls = <<DeployItemCheck, "Reconcile">>

\* C9 witness: the fast path was taken
C9_Witness ==
    /\ pc = "post"
    /\ calls = <<DeployItemCheck>>
    /\ lsError = "none"
    /\ IsCompletedExecutionPhase(exec.status.phase)
    /\ ~oldExec.deleting

\* C10: for an execution with a deletion timestamp Ensure calls nothing but
\* op.Delete; when teardown and post-processing gave no error handleError
\* writes no status, emits no event and the invocation returns success.
C10_Deletion ==
    /\ (Entered /\ oldExec.deleting) =>
          \A n \in 1..Len(calls) : calls[n] = "Delete"
    /\ (pc = "done" /\ outcome = "handled" /\ oldExec.deleting /\ lsError = "none") =>
          /\ "W000031" \notin WriteIds(writes)
          /\ events = <<>>
          /\ retErr = "none"

\* C10 witness: teardown succeeded for an execution that also needed normalization
C10_Witness ==
    /\ pc = "done"
    /\ outcome = "handled"
    /\ oldExec.deleting
    /\ lsError = "none"
    /\ calls = <<"Delete">>
    /\ NormalizationNeeded(oldExec)
    /\ ~stored.exists

\* the warning event that mirrors a LastError
LastErrorEvent(le) == Event(le.err, le.err)
Emitted(ev) == \E n \in 1..Len(events) : events[n] = ev

\* C11 as stated: whenever LastError is non-nil at the end of an invocation that
\* read the execution, the warning event for it was emitted in that invocation.
C11_AsStated ==
    (pc = "done" /\ outcome \in {"ignored", "handled"}
        /\ exec.status.lastError # NoLastError) =>
        Emitted(LastErrorEvent(exec.status.lastError))

\* C11 as amended: whenever LastError is non-nil at the end of an invocation
\* that was not skipped for the ignore annotation and was not a teardown that
\* gave no error, the warning event for it was emitted in that invocation,
\* whatever the phase.
C11_EventEmission ==
    (pc = "done" /\ outcome = "handled"
        /\ ~(oldExec.deleting /\ lsError = "none")
        /\ exec.status.lastError # NoLastError) =>
        Emitted(LastErrorEvent(exec.status.lastError))

\* C11 witness: the event was emitted though the phase did not become Failed
C11_Witness ==
    /\ pc = "done"
    /\ outcome = "handled"
    /\ ~oldExec.deleting
    /\ exec.status.lastError # NoLastError
    /\ exec.status.phase = "Progressing"
    /\ Emitted(LastErrorEvent(exec.status.lastError))

\* the attempts of handleError's status write in this invocation
FinalWrites == SelectSeq(writes, LAMBDA w : w.id = "W000031")

\* C12 as stated: at the end of an invocation that went through Ensure the status
\* is written (once) exactly when it differs from the snapshot taken before
\* Ensure, and a failed write is what the invocation returns.
C12_AsStated ==
    (pc = "done" /\ outcome = "handled") =>
        /\ Len(FinalWrites) = (IF exec.status # oldExec.status THEN 1 ELSE 0)
        /\ \A n \in 1..Len(FinalWrites) :
              FinalWrites[n].res # "ok" => retErr = FinalWrites[n].res

\* C12 as amended: the same, except that a teardown that gave no error ends the
\* invocation without the status write, whether or not the status differs from
\* the snapshot.
C12_StatusPersistence ==
    (pc = "done" /\ outcome = "handled") =>
        IF oldExec.deleting /\ lsError = "none"
        THEN FinalWrites = <<>> /\ retErr = "none"
        ELSE /\ Len(FinalWrites) = (IF exec.status # oldExec.status THEN 1 ELSE 0)
             /\ \A n \in 1..Len(FinalWrites) :
                   /\ FinalWrites[n].res # "ok" => retErr = FinalWrites[n].res
                   /\ FinalWrites[n].res = "ok" => retErr = lsError
             /\ FinalWrites = <<>> => retErr = lsError

\* C12 witness: the one status write met a conflict, which is returned
C12_Witness ==
    /\ pc = "done"
    /\ outcome = "handled"
    /\ ~oldExec.deleting
    /\ lsError = "none"
    /\ exec.status # oldExec.status
    /\ FinalWrites = <<Write("W000031", "conflict")>>
    /\ retErr = "conflict"

Called(op) == \E n \in 1..Len(calls) : calls[n] = op

\* C13: an execution read in phase Failed, with its generation observed, no
\* reconcile or force-reconcile annotation and no deletion timestamp, keeps the
\* phase Failed throughout the invocation and does not get the main reconcile.
C13_FailedIsTerminal ==
    (Entered /\ oldExec.status.phase = "Failed"
        /\ ~NormalizationNeeded(oldExec) /\ ~oldExec.deleting) =>
        /\ ~Called("Reconcile")
        /\ exec.status.phase = "Failed"

\* ----------------------------------------- export constructor: stated properties

Declares(k) == \E n \in 1..Len(declared) : declared[n] = k
ConstructSucceeded == epc = "done" /\ ~eerr

\* C14: after a successful Construct every declared key has a DataObject, and the
\* DataObject of a key the execution output provides carries the execution's
\* value, also when a completed sibling exports the key; it carries the value of
\* a completed sibling that exports the key only when the execution output does
\* not provide the key.
C14_ExportPrecedence ==
    ConstructSucceeded =>
        /\ \A k \in Keys : Declares(k) =>
              \E m \in 1..Len(exported) : exported[m].key = k
        /\ \A m \in 1..Len(exported) :
              LET o == exported[m] IN
              IF o.key \in execOutput
              THEN o.data = ExecValue /\ o.sourceRef = None
              ELSE /\ o.sourceRef \in SiblingSources(o.key)
                   /\ o.data = SiblingValue(o.sourceRef)

\* C14 witness: a key both the execution and a completed sibling provide was
\* exported with the execution's value, next to a key taken from a sibling
C14_Witness ==
    /\ ConstructSucceeded
    /\ \E m \in 1..Len(exported) :
          /\ exported[m].key \in execOutput
          /\ SiblingSources(exported[m].key) # {}
          /\ exported[m].data = ExecValue
    /\ \E m \in 1..Len(exported) : exported[m].sourceRef \in Sibs

HasSource(k) == k \in execOutput \/ SiblingSources(k) # {}

\* C15: when every declared key has a source Construct succeeds and returns one
\* DataObject per declared key, with pairwise distinct keys, in the order of the
\* declaration; when some declared key has no source Construct fails and
\* returns no export set.
C15_ExportShape ==
    (epc = "done") =>
        IF \A k \in Keys : Declares(k) => HasSource(k)
        THEN /\ ~eerr
             /\ Len(exported) = Len(declared)
             /\ \A n \in 1..Len(declared) : exported[n].key = declared[n]
             /\ \A a, b \in 1..Len(exported) :
                   a # b => exported[a].key # exported[b].key
        ELSE /\ eerr
             /\ exported = <<>>

\* C15 witness: two keys declared against the order of the keys, one provided by
\* the execution and one by a sibling, exported in the order of the declaration
C15_Witness ==
    /\ ConstructSucceeded
    /\ Len(declared) = 2
    /\ declared[1] > declared[2]
    /\ exported[1].key = declared[1]
    /\ exported[1].sourceRef \in Sibs
    /\ exported[2].key = declared[2]
    /\ exported[2].sourceRef = None

\* ------------------------------------------ outdated imports: stated properties

\* import n was consumed at another ConfigGeneration than its source has now
IsOutdated(n) ==
    LET imp == impStatus[n] IN
    \/ imp.kind = "parent" /\ imp.recorded # parentGen
    \/ imp.kind = "sibling" /\ imp.recorded # sibGen[imp.src]
    \/ imp.kind = "manual" /\ imp.recorded # dataGen

\* C16: OutdatedImports answers true exactly when some import's recorded
\* ConfigGeneration differs from the current one of its source (parent, sibling
\* or manually provided data import), and false when all of them match.
C16_OutdatedImports ==
    (opc = "done") =>
        (outdated <=> \E n \in 1..Len(impStatus) : IsOutdated(n))

\* C16 witness: only the manually provided data import, behind an up-to-date
\* import from the parent, is outdated
C16_Witness ==
    /\ opc = "done"
    /\ outdated
    /\ Len(impStatus) = 2
    /\ impStatus[1].kind = "parent"
    /\ ~IsOutdated(1)
    /\ impStatus[2].kind = "manual"
    /\ IsOutdated(2)

\* ------------------------------------------ controller: stated properties (2)

\* C17: an invocation that finds no execution returns success, one that fails to
\* read it for another reason returns that error; neither calls the execution
\* layer, writes to the store or emits an event.
C17_NotFound ==
    /\ (pc = "done" /\ outcome = "notfound") =>
          /\ ~stored.exists
          /\ retErr = "none"
          /\ writes = <<>>
          /\ events = <<>>
          /\ calls = <<>>
    /\ (pc = "done" /\ outcome = "readerr") =>
          /\ retErr = "read"
          /\ writes = <<>>
          /\ events = <<>>
          /\ calls = <<>>
    /\ (pc = "done" /\ outcome \in {"ignored", "handled"}) => oldExec.exists \/ exec.exists

\* C17 witness: the execution was torn down and a late request finds nothing
C17_Witness ==
    /\ pc = "done"
    /\ outcome = "notfound"
    /\ ~stored.exists
    /\ stored.deleting
    /\ retErr = "none"

\* ---------------------------------------------- resolver: stated properties (2)

\* the step being taken examines a data import whose source was resolved to the
\* installation itself or to its direct parent
SelfOrParentImportStep ==
    /\ rpc = "call"
    /\ stack # <<>>
    /\ Top.fn = "siblings"
    /\ Top.idx <= Len(instImports[Top.inst])
    /\ lastStep'.kind \in ImportStepKinds
    /\ lastStep'.src # None
    /\ lastStep'.src \in {Top.inst, instParent[Top.inst]}

\* the loop goes on to the next import of the same installation
ContinuesLoop ==
    /\ rpc' = "call"
    /\ stack' = ReplaceTop([Top EXCEPT !.idx = Top.idx + 1])
    /\ ret' = ret

\* C18 as stated: an import whose source is the installation itself or its
\* direct parent is passed over: the source is not fetched and the loop goes on
\* to the next import, whatever the phases are.
C18_AsStated ==
    [][SelfOrParentImportStep =>
          /\ fetched' = fetched
          /\ lastStep'.kind = "skip"
          /\ ContinuesLoop]_vars

\* C18 as amended: such an import is passed over without fetching the source,
\* whatever the phases are, unless the lookup of the installation's parent
\* fails; then, and only for a source other than the installation itself, the
\* call returns (false, error).
C18_SelfParentSkipped ==
    [][SelfOrParentImportStep =>
          /\ fetched' = fetched
          /\ IF lastStep'.kind = "skip"
             THEN ContinuesLoop
             ELSE /\ lastStep'.kind = "fail"
                  /\ lastStep'.src # Top.inst
                  /\ rpc' = "ret"
                  /\ ret' = Result(FALSE, TRUE)]_vars

\* C18 witness: an import from the direct parent was passed over though the
\* parent is Failed, and the parent was not fetched
C18_Witness ==
    /\ rpc = "call"
    /\ lastStep.kind = "skip"
    /\ lastStep.src # None
    /\ lastStep.src = instParent[lastStep.inst]
    /\ instPhase[lastStep.src] = "Failed"
    /\ lastStep.src \notin fetched

\* C19: an import with a recorded SourceRef has that reference as its source
\* and the store is not asked for its owner; an import without one has its
\* owner looked up, has the owner as its source when the owner is an
\* Installation, and is otherwise passed over without error, the loop going on
\* to the next import.
C19_SourceResolution ==
    (lastStep.kind \in ImportStepKinds) =>
        LET i == lastStep.inst
            k == lastStep.idx
            imp == instImports[i][k]
        IN  IF imp.ref # None
            THEN /\ lastStep.src = imp.ref
                 /\ <<i, k>> \notin lookups
            ELSE /\ <<i, k>> \in lookups
                 /\ lastStep.kind # "fail" =>
                       IF imp.ownerKind = "Installation"
                       THEN lastStep.src = imp.owner
                       ELSE /\ lastStep.kind = "skip"
                            /\ lastStep.src = None
                            /\ rpc = "call"
                            /\ Len(stack) = lastStep.depth
                            /\ Top = [fn |-> "siblings", inst |-> i, idx |-> k + 1]

\* C19 witness: a first import owned by a Target was passed over and a second
\* import, with a recorded SourceRef, is still to be checked
C19_Witness ==
    /\ lastStep.kind = "skip"
    /\ lastStep.idx = 1
    /\ instImports[lastStep.inst][1].ref = None
    /\ instImports[lastStep.inst][1].ownerKind = "Target"
    /\ Len(instImports[lastStep.inst]) = 2
    /\ instImports[lastStep.inst][2].ref # None
    /\ rpc = "call"
    /\ Top.idx = 2

\* the step just taken performed a store lookup that failed
LookupFailedStep == lastStep'.kind \in {"fail", "parentFail"}

\* C20: a step whose lookup fails returns (false, error); a call that gets
\* (false, error) from the call it made returns (false, error) itself, up to the
\* outermost call; and no call returns true together with an error.
C20_LookupErrorAborts ==
    [][/\ ret'.ok => ~ret'.err
       /\ LookupFailedStep => (ret' = Result(FALSE, TRUE) /\ rpc' \in {"ret", "done"})
       /\ (rpc = "ret" /\ ret.err) =>
             (ret' = Result(FALSE, TRUE) /\ rpc' \in {"ret", "done"})]_vars

\* C20 witness: during an ancestor walk the fetch of a source failed two calls
\* below the parent's own check
C20_Witness ==
    /\ call.fn = "ofParent"
    /\ rpc = "ret"
    /\ lastStep.kind = "fail"
    /\ lastStep.src # None
    /\ lastStep.depth = 3
    /\ ret = Result(FALSE, TRUE)

\* C21: every call of CheckCompletedSiblingDependents and of
\* CheckCompletedSiblingDependentsOfParent comes back, also when the imports of
\* Completed siblings form a cycle: the walk never needs more nested calls than
\* one per installation of the store (and one for the ancestor walk), so it
\* never runs into the recursion that does not return.
C21_Termination == rpc # "overflow"

\* ------------------------------------- controller: post-processing and the store

\* the step is removeForceReconcileAnnotation (with lines 75-78 of Reconcile)
PostStep == pc = "post" /\ pc' = "handle"

\* the step is handleError
HandleStep == pc = "handle" /\ pc' = "done"

\* the write the step issued, if it issued one
Issued(id) == Len(writes') = Len(writes) + 1 /\ writes'[Len(writes')].id = id
IssuedFailed(id) == Issued(id) /\ writes'[Len(writes')].res # "ok"

\* the removal of the force-reconcile annotation failed in this invocation
RemovalFailed == \E n \in 1..Len(writes) : writes[n].id = "W000029" /\ writes[n].res # "ok"

\* C22 as stated: an error of Ensure is kept when the removal of the
\* force-reconcile annotation fails too, the removal error is taken only when
\* Ensure gave none, and after a failed removal the error so chosen is the one
\* merged into LastError and returned by the invocation.
C22_AsStated ==
    [][/\ PostStep =>
             lsError' = IF lsError # "none" THEN lsError
                        ELSE IF IssuedFailed("W000029") THEN ErrRemoveForce
                        ELSE "none"
       /\ (HandleStep /\ RemovalFailed) =>
             /\ exec'.status.lastError.err = lsError
             /\ retErr' = lsError]_vars

\* C22 as amended: the same, except that the invocation returns the failure of
\* the final status write when that write fails; the error merged into
\* LastError is the chosen one all the same.
C22_ErrorPrecedence ==
    [][/\ PostStep =>
             lsError' = IF lsError # "none" THEN lsError
                        ELSE IF IssuedFailed("W000029") THEN ErrRemoveForce
                        ELSE "none"
       /\ (HandleStep /\ RemovalFailed) =>
             /\ exec'.status.lastError.err = lsError
             /\ retErr' = IF IssuedFailed("W000031")
                          THEN writes'[Len(writes')].res
                          ELSE lsError]_vars

\* C22 witness: normalization failed, the removal of the force-reconcile
\* annotation failed too, and the invocation recorded and returned the former
C22_Witness ==
    /\ pc = "done"
    /\ outcome = "handled"
    /\ lsError = ErrStatusUpdate
    /\ HasWrite("W000029", "failed")
    /\ exec.status.lastError.err = ErrStatusUpdate
    /\ retErr = ErrStatusUpdate

\* ------------------------------------------- parallel workers: stated properties

\* the step is worker w's handleError
WHandleStep(w) == wk[w].pc = "handle" /\ wk'[w].pc = "done"

AtReconcileWork == pc \in {"work", "main"} /\ ~exec.deleting

\* the write that persists the finalizer failed in this invocation
FinalizerWriteFailed ==
    \E n \in 1..Len(writes) : writes[n].id = "W000025" /\ writes[n].res # "ok"

\* the step is the teardown, op.Delete
TeardownStep == pc = "work" /\ exec.deleting /\ calls' = Append(calls, "Delete")

\* the step belongs to an invocation that has read the execution
InInvocation == pc \notin {"idle", "done"}

\* C24: where Ensure is at the deploy-item check or the main reconcile of an
\* execution without deletion timestamp, the finalizer is on the execution and
\* in the store; when persisting it fails Ensure ends with that error and no
\* operation of the execution layer is called; the finalizer is not added to an
\* execution with a deletion timestamp; and only the teardown takes it off the
\* execution or the execution off the store.
C24_FinalizerProtection ==
    [][/\ AtReconcileWork' => (exec'.finalizer /\ stored'.exists /\ stored'.finalizer)
       /\ IssuedFailed("W000025") => (lsError' = ErrAddFinalizer /\ pc' = "post")
       /\ FinalizerWriteFailed' => calls' = <<>>
       /\ (Issued("W000025") \/ (InInvocation /\ ~exec.finalizer /\ exec'.finalizer)) =>
             ~exec.deleting
       /\ (InInvocation /\ exec.finalizer /\ ~exec'.finalizer) => TeardownStep
       /\ (stored.exists /\ stored.finalizer /\ ~(stored'.exists /\ stored'.finalizer)) =>
             TeardownStep]_vars

\* C24 witness: the finalizer was added to a new execution and persisted, and
\* Ensure has gone on to the main reconcile
C24_Witness ==
    /\ pc = "work"
    /\ ~exec.deleting
    /\ ~oldExec.finalizer
    /\ HasWrite("W000025", "ok")
    /\ exec.finalizer
    /\ stored.finalizer

\* ------------------------------------ controller: the force-reconcile annotation

\* the invocation went through Ensure for an execution read with the
\* force-reconcile annotation, and has returned
ForcedInvocationDone ==
    pc = "done" /\ outcome = "handled" /\ oldExec.op = "force-reconcile"

\* the removal of the annotation was attempted, once, after every write of Ensure
RemovalAttempted ==
    \E n \in 1..Len(writes) :
        /\ writes[n].id = "W000029"
        /\ \A m \in 1..Len(writes) :
              /\ m < n => writes[m].id \in {"W000033", "W000027", "W000025"}
              /\ m > n => writes[m].id = "W000031"

\* C25 as stated: an invocation that reaches Ensure with the force-reconcile
\* annotation attempts its removal after Ensure, whatever Ensure returned, and
\* after one whose main reconcile failed the annotation is not on the stored
\* object.
C25_AsStated ==
    ForcedInvocationDone =>
        /\ RemovalAttempted
        /\ (Called("Reconcile") /\ lsError = ErrReconcile) => stored.op # "force-reconcile"

\* C25 as amended: the removal is attempted after Ensure, whatever Ensure
\* returned, and after the invocation the annotation is off the stored object
\* exactly when that attempt succeeded.
C25_ForceConsumed ==
    ForcedInvocationDone =>
        /\ RemovalAttempted
        /\ exec.op = "none"
        /\ stored.op = (IF HasWrite("W000029", "ok") THEN "none" ELSE "force-reconcile")

\* C25 witness: the main reconcile failed and the annotation was removed from
\* the stored object all the same
C25_Witness ==
    /\ ForcedInvocationDone
    /\ Called("Reconcile")
    /\ lsError = ErrReconcile
    /\ HasWrite("W000029", "ok")
    /\ stored.exists
    /\ stored.op = "none"

\* ------------------------------------ controller: a failed final status write

\* C26: when handleError is given an error and its status write fails, it
\* returns the failure of the write and not the error it was given; the store
\* is left as it was, without the merged LastError and the computed phase; and
\* the warning event for the merged LastError has been emitted in that
\* invocation all the same.
C26_WriteFailureMasks ==
    [][(HandleStep /\ lsError # "none" /\ IssuedFailed("W000031")) =>
          /\ retErr' = writes'[Len(writes')].res
          /\ retErr' # lsError
          /\ stored' = stored
          /\ exec'.status.lastError.err = lsError
          /\ exec'.status.phase =
                GetPhaseForLastError(exec.status.phase, exec'.status.lastError, ErrorThreshold)
          /\ events' = Append(events, LastErrorEvent(exec'.status.lastError))]_vars

\* C26 witness: the main reconcile failed, the status write met a conflict, the
\* invocation returns the conflict, the store holds no LastError, the event is out
C26_Witness ==
    /\ pc = "done"
    /\ outcome = "handled"
    /\ lsError = ErrReconcile
    /\ FinalWrites = <<Write("W000031", "conflict")>>
    /\ retErr = "conflict"
    /\ stored.status.lastError = NoLastError
    /\ exec.status.lastError.err = ErrReconcile
    /\ Emitted(LastErrorEvent(exec.status.lastError))

====
